---- MODULE Spec2Model ----
(***************************************************************************)
(* Resource-protection layer of GfG-IEC: token-bucket rate limiter         *)
(* (rate_limiter.py), request throttle and circuit breaker                 *)
(* (request_throttler.py), TTL+LRU result cache (cache_manager.py) and the *)
(* decorated endpoints of main.py.                                         *)
(*                                                                         *)
(* Time is time.time() in integer milliseconds.  Token levels are fixed    *)
(* point: one token is TOKEN units, a refill rate is in units per          *)
(* millisecond, so elapsed * refill_rate is exact.                         *)
(***************************************************************************)
EXTENDS Integers, Sequences, FiniteSets, TLC

\* ---------------------------------------------------------------- bounds
\* time.time() at process start, far past every zero-initialised timestamp
T0 == 1000000
\* seconds of clock the limiter specification explores
MaxLimiterSec == 4
\* milliseconds of clock the throttle specification explores
MaxThrottleMs == 700
\* seconds of clock the breaker specification explores
MaxBreakerSec == 420
\* cap on circuit_breaker['failures'] (the code never caps it)
MaxFailures == 11
\* requests served in the endpoint specification
MaxRequests == 6
\* seconds of clock the endpoint specification explores
MaxRequestSec == 20
\* largest token level the global bucket starts from in the endpoint spec
MaxGlobalStart == 5
\* the cache specification: entries the store holds, calls made, seconds
MaxSize == 2
MaxCacheOps == 4
MaxCacheSec == 2
\* the cached-fetch specification: calls made, hours
MaxFetches == 4
MaxFetchHours == 9
\* the thread specifications: calls started, seconds
MaxThreadCalls == 3
MaxThreadSec == 1

\* ------------------------------------------------------------- units
\* fixed-point units per token
TOKEN == 100000
MsPerSec == 1000

\* rate_limit.wrapper: the global bucket's capacity and the retry_after of a
\* global refusal; the global cache's max_size; the ttl of
\* fetch_gfg_detailed_stats in seconds
GLOBAL_CAPACITY == 1000
GLOBAL_RETRY_AFTER == 10
CACHE_MAX_SIZE == 1000
STATS_TTL == 21600

\* request_throttler.py
DEFAULT_MIN_DELAY_MS == 500
CIRCUIT_BREAKER_THRESHOLD == 10
CIRCUIT_BREAKER_TIMEOUT == 300
FAILURE_WINDOW == 60

Min(a, b) == IF a <= b THEN a ELSE b

\* refill_rate (tokens per second) as units per millisecond
PerSec002 == 2
PerSec005 == 5
PerSec01 == 10
PerSec02 == 20
PerSec025 == 25
PerSec05 == 50
PerSec1 == 100
PerSec10 == 1000

\* ------------------------------------------------------------- inputs
Identifiers == {"ip1", "ip2"}
\* the limiter specification: one caller and the global bucket
LimiterIds == {"ip1"}
Capacities == {1, 5}
RefillRates == {PerSec05, PerSec1}
RetryRates == {PerSec01, PerSec05}
LimiterTicks == {1000, 2000}
\* throttled operations and the min_delay_ms each is decorated with
ThrottleSites == {"op_a", "op_b"}
SiteDelay == [site \in ThrottleSites |->
                 IF site = "op_a" THEN DEFAULT_MIN_DELAY_MS ELSE 200]
ThrottleTicks == {33, 100}
BreakerTicks == {30000, 300000}
RequestTicks == {20000}
Handles == {"h1"}
Values == {"v1"}
None == "None"

\* the referral specification: the users who call (u1 has a code, u3 has
\* none), and the codes they give: that of u1, that of u2, and no code
ReferralUsers == {"u1", "u3"}
ReferralCodes == {"U1XAAAAA", "U2XBBBBB", "NOSUCH00"}
\* use_referral_code, lines 114 and 126-127: points for a referral
REFERRAL_POINTS == 5

\* main.RATE_LIMITS
RATE_LIMITS ==
    [user_write |-> [capacity |-> 5, refill_rate |-> PerSec005],
     referral_use |-> [capacity |-> 3, refill_rate |-> PerSec002],
     leaderboard |-> [capacity |-> 30, refill_rate |-> PerSec05],
     user_read |-> [capacity |-> 20, refill_rate |-> PerSec02],
     referral_stats |-> [capacity |-> 15, refill_rate |-> PerSec025]]

\* the rate-limited endpoints of main.py that are exercised: the preset each
\* is decorated with and whether its handler calls the cached
\* points.fetch_gfg_detailed_stats
ENDPOINTS ==
    [add_user |-> [preset |-> "user_write", cached |-> TRUE],
     get_leaderboard |-> [preset |-> "leaderboard", cached |-> FALSE]]
\* the cache specification: the store holds results of three computations
CacheHandles == {"a", "b", "c"}
\* what set is called with: a value and a ttl in seconds
CacheWrites == {[value |-> "v1", ttl |-> 1], [value |-> "v2", ttl |-> 2]}
CacheTicks == {1000}
\* the cached-fetch specification: handles fetched, what the fetch returns
FetchHandles == {"h1", "h2"}
FetchValues == {"v1", None}
FetchTicks == {3 * 3600 * MsPerSec}
\* the fingerprint specification: positional arguments and keywords, in
\* the order written, that fetch_gfg_detailed_stats is called with
KeyArgs == {<<>>, <<"h1">>}
KwHandle == [name |-> "handle", value |-> "h1"]
KwPage == [name |-> "page", value |-> "1"]
KeywordCalls == {<<>>, <<KwHandle>>, <<KwPage>>, <<KwHandle, KwPage>>,
                 <<KwPage, KwHandle>>}
\* the thread specifications: request threads of the server, and what
\* they call
Threads == {"t1", "t2"}
ThreadTicks == {1000}
ThreadCapacity == 1
\* how long the protected work runs before it returns or raises
WorkDurations == {0, 30000}

VARIABLES
    now,                \* time.time()
    buckets,            \* RateLimiter.buckets: identifier -> bucket
    global_bucket,      \* RateLimiter.global_bucket
    last_request_time,  \* request_throttler.last_request_time['timestamp']
    circuit_breaker,    \* request_throttler.circuit_breaker
    cache,              \* CacheManager.cache, least recently used first
    stats,              \* CacheManager.stats
    supabase,           \* main.supabase is connected
    ret,                \* the last call: its name, arguments and result
    trace,              \* gates and work evaluated by the last request
    burst,              \* per bucket: calls made in the instant it was created
    recent_failures,    \* times of the failures recorded in the last FAILURE_WINDOW
    last_write,         \* per key: its last set, and its rank by last use
    frames,             \* per thread: where it is in the call it makes
    tally,              \* what the calls made by threads have done so far
    nreq,               \* requests served, or calls made on the cache
    referrals,          \* table referrals: username, referral_code, count
    referral_uses,      \* table referral_uses: referrer, new_user, code
    user_points         \* table user_points: username and points

vars == <<now, buckets, global_bucket, last_request_time, circuit_breaker,
          cache, stats, supabase, ret, trace, burst, recent_failures,
          last_write, frames, tally, nreq, referrals, referral_uses,
          user_points>>

limiterVars == <<buckets, global_bucket, burst>>
throttleVars == <<last_request_time>>
breakerVars == <<circuit_breaker, recent_failures>>
cacheVars == <<cache, stats, last_write>>
threadVars == <<frames, tally>>
tableVars == <<referrals, referral_uses, user_points>>
dbVars == <<supabase, tableVars>>

\* ======================================================== rate_limiter.py

\* RateLimiter._refill_bucket without the capacity ceiling
refill_bucket_nocap(bucket, capacity, refill_rate, t) ==
    [bucket EXCEPT !.tokens = @ + (t - bucket.last_update) * refill_rate,
                   !.last_update = t]

\* RateLimiter._refill_bucket
refill_bucket(bucket, capacity, refill_rate, t) ==
    [bucket EXCEPT !.tokens = Min(capacity * TOKEN,
                                  @ + (t - bucket.last_update) * refill_rate),
                   !.last_update = t]

\* a new per-identifier bucket that starts empty
new_bucket_empty(capacity, t) == [tokens |-> 0, last_update |-> t]

\* is_allowed, lines 34-39: the bucket of an unseen identifier
new_bucket(capacity, t) == [tokens |-> capacity * TOKEN, last_update |-> t]

\* consume that also charges a denied call
consume_always(bucket) == [bucket EXCEPT !.tokens = @ - TOKEN]

\* is_allowed / is_globally_allowed: the token check and the consumption
consume(bucket) ==
    IF bucket.tokens >= TOKEN
    THEN [bucket EXCEPT !.tokens = @ - TOKEN]
    ELSE bucket

\* RateLimiter.is_allowed: the buckets after the call and its result
is_allowed(bks, identifier, capacity, refill_rate, t) ==
    LET b0 == IF identifier \in DOMAIN bks
              THEN bks[identifier]
              ELSE new_bucket(capacity, t)
        b1 == refill_bucket(b0, capacity, refill_rate, t)
    IN  [buckets |-> (identifier :> consume(b1)) @@ bks,
         refilled |-> b1.tokens,
         allowed |-> b1.tokens >= TOKEN]

\* is_globally_allowed, lines 56-58: the first call fills the bucket
init_global(gb, capacity) ==
    IF gb.initialized
    THEN gb
    ELSE [gb EXCEPT !.tokens = capacity * TOKEN, !.initialized = TRUE]

\* RateLimiter.is_globally_allowed
is_globally_allowed(gb, capacity, refill_rate, t) ==
    LET g1 == refill_bucket(init_global(gb, capacity), capacity, refill_rate, t)
    IN  [bucket |-> consume(g1),
         refilled |-> g1.tokens,
         allowed |-> g1.tokens >= TOKEN]

\* RateLimiter.get_retry_after: int(tokens_needed / refill_rate) + 1
get_retry_after(bks, identifier, refill_rate) ==
    LET tokens_needed == TOKEN - bks[identifier].tokens
    IN  IF tokens_needed <= 0 THEN 0
        ELSE (tokens_needed \div (refill_rate * MsPerSec)) + 1


\* the rate_limit wrapper with the two checks in the other order
rate_limit_per_user_first(gb, bks, identifier, capacity, refill_rate, t) ==
    LET u == is_allowed(bks, identifier, capacity, refill_rate, t)
        g == is_globally_allowed(gb, GLOBAL_CAPACITY, PerSec10, t)
    IN  IF ~u.allowed
        THEN [global_bucket |-> gb, buckets |-> u.buckets,
              denied_by |-> "per_identifier", status |-> 429,
              retry_after |-> get_retry_after(u.buckets, identifier,
                                              refill_rate),
              gates |-> <<"per_identifier_limiter">>]
        ELSE IF ~g.allowed
        THEN [global_bucket |-> g.bucket, buckets |-> u.buckets,
              denied_by |-> "global", status |-> 503,
              retry_after |-> GLOBAL_RETRY_AFTER,
              gates |-> <<"per_identifier_limiter", "global_limiter">>]
        ELSE [global_bucket |-> g.bucket, buckets |-> u.buckets,
              denied_by |-> "nothing", status |-> 200, retry_after |-> 0,
              gates |-> <<"per_identifier_limiter", "global_limiter">>]

\* rate_limit.wrapper up to the call of the wrapped handler: the global
\* check, then the per-identifier check
rate_limit(gb, bks, identifier, capacity, refill_rate, t) ==
    LET g == is_globally_allowed(gb, GLOBAL_CAPACITY, PerSec10, t)
        u == is_allowed(bks, identifier, capacity, refill_rate, t)
    IN  IF ~g.allowed
        THEN [global_bucket |-> g.bucket, buckets |-> bks,
              denied_by |-> "global", status |-> 503,
              retry_after |-> GLOBAL_RETRY_AFTER,
              gates |-> <<"global_limiter">>]
        ELSE IF ~u.allowed
        THEN [global_bucket |-> g.bucket, buckets |-> u.buckets,
              denied_by |-> "per_identifier", status |-> 429,
              retry_after |-> get_retry_after(u.buckets, identifier,
                                              refill_rate),
              gates |-> <<"global_limiter", "per_identifier_limiter">>]
        ELSE [global_bucket |-> g.bucket, buckets |-> u.buckets,
              denied_by |-> "nothing", status |-> 200, retry_after |-> 0,
              gates |-> <<"global_limiter", "per_identifier_limiter">>]

\* wrapper that calls the endpoint whatever the two limiters said
reaches_handler_always(rl) == TRUE

\* rate_limit.wrapper reaches "return func(*args, **kwargs)" only past the
\* two refusals
reaches_handler(rl) == rl.denied_by = "nothing"

\* ======================================================= cache_manager.py

\* the keywords a call may pass, by their place in the order in which
\* json.dumps(sort_keys=True) writes them
KeywordRank == [handle |-> 1, page |-> 2]

\* kwargs, a sequence of name and value in the order the caller wrote them,
\* as json.dumps(sort_keys=True) writes it: by name
sort_keys(kwargs) ==
    CHOOSE s \in [1..Len(kwargs) -> {kwargs[i] : i \in 1..Len(kwargs)}] :
        /\ {s[i] : i \in 1..Len(kwargs)} = {kwargs[i] : i \in 1..Len(kwargs)}
        /\ \A i, j \in 1..Len(kwargs) :
               i < j => KeywordRank[s[i].name] < KeywordRank[s[j].name]

\* a key made from the keywords in the order the caller wrote them
fingerprint_unsorted(func_name, args, kwargs) ==
    [func |-> func_name, args |-> args, kwargs |-> kwargs]

\* CacheManager._generate_key: the md5 digest of the JSON text of func, args
\* and kwargs with sorted keys, held as that text's content: one digest per
\* text
fingerprint(func_name, args, kwargs) ==
    [func |-> func_name, args |-> args, kwargs |-> sort_keys(kwargs)]

\* CacheManager._generate_key for a call without keywords, one key per
\* function name and arguments
generate_key(func_name, args) == fingerprint(func_name, args, <<>>)

\* position of key in the OrderedDict, 0 when absent
position(c, key) ==
    IF \E i \in 1..Len(c) : c[i].key = key
    THEN CHOOSE i \in 1..Len(c) : c[i].key = key
    ELSE 0

without(c, i) == SubSeq(c, 1, i - 1) \o SubSeq(c, i + 1, Len(c))

\* the keys the store holds
Keys(c) == {c[i].key : i \in 1..Len(c)}

\* get that leaves an expired entry in the store
cache_get_keeps_expired(c, st, key, t) ==
    LET i == position(c, key)
    IN  IF i # 0 /\ t < c[i].expires_at
        THEN [cache |-> Append(without(c, i), c[i]),
              stats |-> [st EXCEPT !.hits = @ + 1],
              value |-> c[i].value]
        ELSE [cache |-> c,
              stats |-> [st EXCEPT !.misses = @ + 1],
              value |-> None]

\* get that still serves an entry at the instant it expires
cache_get_inclusive(c, st, key, t) ==
    LET i == position(c, key)
    IN  IF i # 0 /\ t <= c[i].expires_at
        THEN [cache |-> Append(without(c, i), c[i]),
              stats |-> [st EXCEPT !.hits = @ + 1],
              value |-> c[i].value]
        ELSE [cache |-> IF i # 0 THEN without(c, i) ELSE c,
              stats |-> [st EXCEPT !.misses = @ + 1],
              value |-> None]

\* CacheManager.get: the cache and stats after the call, the value returned
cache_get(c, st, key, t) ==
    LET i == position(c, key)
    IN  IF i # 0 /\ t < c[i].expires_at
        THEN [cache |-> Append(without(c, i), c[i]),
              stats |-> [st EXCEPT !.hits = @ + 1],
              value |-> c[i].value]
        ELSE [cache |-> IF i # 0 THEN without(c, i) ELSE c,
              stats |-> [st EXCEPT !.misses = @ + 1],
              value |-> None]

\* set that never evicts
cache_set_unbounded(c, st, key, value, ttl, t, max_size) ==
    LET i == position(c, key)
        entry == [key |-> key, value |-> value,
                  expires_at |-> t + ttl * MsPerSec, created_at |-> t]
    IN  [cache |-> Append(IF i # 0 THEN without(c, i) ELSE c, entry),
         stats |-> st]

\* set that evicts from the most recently used end
cache_set_evict_newest(c, st, key, value, ttl, t, max_size) ==
    LET full == Len(c) >= max_size
        c1 == IF full THEN SubSeq(c, 1, Len(c) - 1) ELSE c
        st1 == IF full THEN [st EXCEPT !.evictions = @ + 1] ELSE st
        i == position(c1, key)
        entry == [key |-> key, value |-> value,
                  expires_at |-> t + ttl * MsPerSec, created_at |-> t]
    IN  [cache |-> Append(IF i # 0 THEN without(c1, i) ELSE c1, entry),
         stats |-> st1]

\* CacheManager.set: ttl in seconds
cache_set(c, st, key, value, ttl, t, max_size) ==
    LET full == Len(c) >= max_size
        c1 == IF full THEN Tail(c) ELSE c
        st1 == IF full THEN [st EXCEPT !.evictions = @ + 1] ELSE st
        i == position(c1, key)
        entry == [key |-> key, value |-> value,
                  expires_at |-> t + ttl * MsPerSec, created_at |-> t]
    IN  [cache |-> Append(IF i # 0 THEN without(c1, i) ELSE c1, entry),
         stats |-> st1]

\* invalidate that counts the removal as a miss
cache_invalidate_counting(c, st, key) ==
    LET i == position(c, key)
    IN  [cache |-> IF i # 0 THEN without(c, i) ELSE c,
         stats |-> IF i # 0 THEN [st EXCEPT !.misses = @ + 1] ELSE st]

\* CacheManager.invalidate
cache_invalidate(c, st, key) ==
    LET i == position(c, key)
    IN  [cache |-> IF i # 0 THEN without(c, i) ELSE c, stats |-> st]

\* clear that keeps the counters
cache_clear_keep_stats(c, st) == [cache |-> <<>>, stats |-> st]

\* CacheManager.clear
cache_clear(c, st) ==
    [cache |-> <<>>, stats |-> [hits |-> 0, misses |-> 0, evictions |-> 0]]

\* get_stats that cuts the hit rate off after two decimals
get_stats_truncating(c, st) ==
    LET total == st.hits + st.misses
    IN  [hits |-> st.hits, misses |-> st.misses, evictions |-> st.evictions,
         size |-> Len(c),
         hit_rate |-> IF total > 0 THEN (10000 * st.hits) \div total ELSE 0]

\* CacheManager.get_stats: hit_rate is the text of hits / total * 100 with two
\* decimals, held as hundredths of a percent (nearest; a total under 64
\* never puts the quotient at an exact half)
get_stats(c, st) ==
    LET total == st.hits + st.misses
    IN  [hits |-> st.hits, misses |-> st.misses, evictions |-> st.evictions,
         size |-> Len(c),
         hit_rate |-> IF total > 0
                      THEN (2 * 10000 * st.hits + total) \div (2 * total)
                      ELSE 0]

\* cached wrapper that remembers a failed call as an absent result
cached_negative(c, st, func_name, args, ttl, t, outcome, value) ==
    LET key == generate_key(func_name, args)
        g == cache_get(c, st, key, t)
    IN  IF g.value # None
        THEN [cache |-> g.cache, stats |-> g.stats, result |-> g.value,
              raised |-> FALSE, gates |-> <<"cache_lookup">>]
        ELSE LET w == cache_set(g.cache, g.stats, key,
                                IF outcome = "raise" THEN None ELSE value,
                                ttl, t, CACHE_MAX_SIZE)
             IN  [cache |-> w.cache, stats |-> w.stats,
                  result |-> IF outcome = "raise" THEN None ELSE value,
                  raised |-> outcome = "raise",
                  gates |-> <<"cache_lookup", "work">>]

\* cached(ttl).wrapper around work that returns value ("ok") or raises
cached(c, st, func_name, args, ttl, t, outcome, value) ==
    LET key == generate_key(func_name, args)
        g == cache_get(c, st, key, t)
    IN  IF g.value # None
        THEN [cache |-> g.cache, stats |-> g.stats, result |-> g.value,
              raised |-> FALSE, gates |-> <<"cache_lookup">>]
        ELSE IF outcome = "raise"
        THEN [cache |-> g.cache, stats |-> g.stats, result |-> None,
              raised |-> TRUE, gates |-> <<"cache_lookup", "work">>]
        ELSE LET w == cache_set(g.cache, g.stats, key, value, ttl, t,
                                CACHE_MAX_SIZE)
             IN  [cache |-> w.cache, stats |-> w.stats, result |-> value,
                  raised |-> FALSE, gates |-> <<"cache_lookup", "work">>]

\* ---------------------------------------- what was written and used when

\* ranks renumbered 1..n, least recently used first
ranked(lw) ==
    [k \in DOMAIN lw |->
        [lw[k] EXCEPT !.rank =
            Cardinality({j \in DOMAIN lw : lw[j].rank <= lw[k].rank})]]

\* a get served key
noted_hit(lw, key) ==
    ranked([lw EXCEPT ![key].rank = Cardinality(DOMAIN lw) + 1])

\* a set wrote key and the store lost the keys evicted
noted_set(lw, key, value, ttl, t, evicted) ==
    ranked([k \in (DOMAIN lw \ evicted) \cup {key} |->
               IF k = key
               THEN [value |-> value, at |-> t, ttl |-> ttl,
                     rank |-> Cardinality(DOMAIN lw) + 1]
               ELSE lw[k]])

\* keys were invalidated or cleared
noted_drop(lw, keys) == ranked([k \in DOMAIN lw \ keys |-> lw[k]])

\* a call of the cached wrapper that turned the store c into f.cache
noted_cached(lw, c, f, key, value, ttl, t) ==
    LET i == position(c, key)
        served == i # 0 /\ t < c[i].expires_at
        l1 == IF served THEN noted_hit(lw, key) ELSE lw
    IN  IF ~f.raised /\ Len(f.gates) = 2
        THEN noted_set(l1, key, value, ttl, t, Keys(c) \ Keys(f.cache))
        ELSE l1

\* =================================================== request_throttler.py

\* round(remaining, 2) of a delay in milliseconds: the nearest hundredth of
\* a second; at an exact half the binary float decides, either neighbour
round2(ms) ==
    LET q == ms \div 10
        r == ms % 10
    IN  IF r < 5 THEN {10 * q}
        ELSE IF r > 5 THEN {10 * (q + 1)}
        ELSE {10 * q, 10 * (q + 1)}

\* a throttle that stamps every call, also the denied ones
throttle_stamp_always(last, min_delay_ms, t) ==
    [allowed |-> ~(t - last < min_delay_ms),
     remaining |-> min_delay_ms - (t - last),
     last_request_time |-> t]

\* throttle_request.wrapper up to the call of the wrapped function
throttle_gate(last, min_delay_ms, t) ==
    LET time_since_last == t - last
    IN  IF time_since_last < min_delay_ms
        THEN [allowed |-> FALSE,
              remaining |-> min_delay_ms - time_since_last,
              last_request_time |-> last]
        ELSE [allowed |-> TRUE, remaining |-> 0, last_request_time |-> t]

\* circuit_breaker_check that closes as soon as the cooldown is reached
circuit_breaker_check_early(cb, t) ==
    IF cb.is_open
    THEN IF t - cb.opened_at >= CIRCUIT_BREAKER_TIMEOUT * MsPerSec
         THEN [cb |-> [cb EXCEPT !.is_open = FALSE, !.failures = 0],
               open |-> FALSE]
         ELSE [cb |-> cb, open |-> TRUE]
    ELSE IF t - cb.last_failure > FAILURE_WINDOW * MsPerSec
         THEN [cb |-> [cb EXCEPT !.failures = 0], open |-> FALSE]
         ELSE [cb |-> cb, open |-> FALSE]

\* circuit_breaker_check that closes after the cooldown without clearing the
\* count
circuit_breaker_check_keeps_count(cb, t) ==
    IF cb.is_open
    THEN IF t - cb.opened_at > CIRCUIT_BREAKER_TIMEOUT * MsPerSec
         THEN [cb |-> [cb EXCEPT !.is_open = FALSE], open |-> FALSE]
         ELSE [cb |-> cb, open |-> TRUE]
    ELSE IF t - cb.last_failure > FAILURE_WINDOW * MsPerSec
         THEN [cb |-> [cb EXCEPT !.failures = 0], open |-> FALSE]
         ELSE [cb |-> cb, open |-> FALSE]

\* circuit_breaker_check that drops the count as soon as the window is reached
circuit_breaker_check_stale_early(cb, t) ==
    IF cb.is_open
    THEN IF t - cb.opened_at > CIRCUIT_BREAKER_TIMEOUT * MsPerSec
         THEN [cb |-> [cb EXCEPT !.is_open = FALSE, !.failures = 0],
               open |-> FALSE]
         ELSE [cb |-> cb, open |-> TRUE]
    ELSE IF t - cb.last_failure >= FAILURE_WINDOW * MsPerSec
         THEN [cb |-> [cb EXCEPT !.failures = 0], open |-> FALSE]
         ELSE [cb |-> cb, open |-> FALSE]

\* circuit_breaker_check: the breaker after the check and the value returned
circuit_breaker_check(cb, t) ==
    IF cb.is_open
    THEN IF t - cb.opened_at > CIRCUIT_BREAKER_TIMEOUT * MsPerSec
         THEN [cb |-> [cb EXCEPT !.is_open = FALSE, !.failures = 0],
               open |-> FALSE]
         ELSE [cb |-> cb, open |-> TRUE]
    ELSE IF t - cb.last_failure > FAILURE_WINDOW * MsPerSec
         THEN [cb |-> [cb EXCEPT !.failures = 0], open |-> FALSE]
         ELSE [cb |-> cb, open |-> FALSE]

\* record_failure that opens only past the threshold
record_failure_late(cb, t) ==
    LET n == cb.failures + 1
    IN  IF n > CIRCUIT_BREAKER_THRESHOLD
        THEN [failures |-> n, last_failure |-> t, is_open |-> TRUE,
              opened_at |-> t]
        ELSE [cb EXCEPT !.failures = n, !.last_failure = t]

\* record_failure
record_failure(cb, t) ==
    LET n == cb.failures + 1
    IN  IF n >= CIRCUIT_BREAKER_THRESHOLD
        THEN [failures |-> n, last_failure |-> t, is_open |-> TRUE,
              opened_at |-> t]
        ELSE [cb EXCEPT !.failures = n, !.last_failure = t]

\* with_circuit_breaker whose successful call clears the failure count
with_circuit_breaker_forgiving(cb, t, outcome, dur) ==
    LET c == circuit_breaker_check(cb, t)
    IN  IF c.open
        THEN [cb |-> c.cb, now |-> t, refused |-> TRUE, invoked |-> FALSE,
              raised |-> FALSE, work_calls |-> 0, returns |-> "refusal"]
        ELSE IF outcome = "raise"
        THEN [cb |-> record_failure(c.cb, t + dur), now |-> t + dur,
              refused |-> FALSE, invoked |-> TRUE, raised |-> TRUE,
              work_calls |-> 1, returns |-> "exception"]
        ELSE [cb |-> [c.cb EXCEPT !.failures = 0], now |-> t + dur,
              refused |-> FALSE, invoked |-> TRUE, raised |-> FALSE,
              work_calls |-> 1, returns |-> "work_result"]

\* with_circuit_breaker.wrapper around work that takes dur and returns
\* ("ok") or raises ("raise"): the breaker, the time and what happened (how
\* often the work ran; what the caller gets: the 503 refusal, the work's own
\* result, or the work's exception re-raised)
with_circuit_breaker(cb, t, outcome, dur) ==
    LET c == circuit_breaker_check(cb, t)
    IN  IF c.open
        THEN [cb |-> c.cb, now |-> t, refused |-> TRUE, invoked |-> FALSE,
              raised |-> FALSE, work_calls |-> 0, returns |-> "refusal"]
        ELSE IF outcome = "raise"
        THEN [cb |-> record_failure(c.cb, t + dur), now |-> t + dur,
              refused |-> FALSE, invoked |-> TRUE, raised |-> TRUE,
              work_calls |-> 1, returns |-> "exception"]
        ELSE [cb |-> c.cb, now |-> t + dur, refused |-> FALSE,
              invoked |-> TRUE, raised |-> FALSE,
              work_calls |-> 1, returns |-> "work_result"]

\* the failure times that lie in the FAILURE_WINDOW ending at t (the latest
\* CIRCUIT_BREAKER_THRESHOLD of them)
in_window(log, t) ==
    LET recent == SelectSeq(log, LAMBDA x : x >= t - FAILURE_WINDOW * MsPerSec)
    IN  IF Len(recent) > CIRCUIT_BREAKER_THRESHOLD
        THEN SubSeq(recent, Len(recent) - CIRCUIT_BREAKER_THRESHOLD + 1,
                    Len(recent))
        ELSE recent

\* =================================================== limiter specification

BucketNames == Identifiers \cup {"global_bucket"}
NoBurst == [last_cap |-> 0, at |-> 0, cap |-> 0, calls |-> 0, allowed |-> 0]
NoCall == [op |-> "none"]

\* the call history of bucket b after a call with this capacity: the capacity
\* of the latest call, and the calls made in the instant of the bucket's first
\* call (all with one capacity), up to the first call after that capacity is
\* used up
burst_after(b, fresh, capacity, allowed) ==
    LET old == burst[b]
        inc == IF allowed THEN 1 ELSE 0
    IN  IF fresh
        THEN [burst EXCEPT ![b] = [last_cap |-> capacity, at |-> now,
                                   cap |-> capacity, calls |-> 1,
                                   allowed |-> inc]]
        ELSE IF old.calls = 0 \/ old.at # now \/ old.cap # capacity
        THEN [burst EXCEPT ![b] = [NoBurst EXCEPT !.last_cap = capacity]]
        ELSE IF old.calls > old.cap
        THEN burst
        ELSE [burst EXCEPT ![b] = [old EXCEPT !.calls = @ + 1,
                                              !.allowed = @ + inc]]

\* a direct call of rate_limiter.is_allowed
IsAllowed(identifier, capacity, refill_rate) ==
    LET r == is_allowed(buckets, identifier, capacity, refill_rate, now)
        fresh == identifier \notin DOMAIN buckets
    IN  /\ buckets' = r.buckets
        /\ burst' = burst_after(identifier, fresh, capacity, r.allowed)
        /\ ret' = [op |-> "is_allowed", identifier |-> identifier,
                   capacity |-> capacity, refill_rate |-> refill_rate,
                   before |-> IF fresh THEN capacity * TOKEN
                              ELSE buckets[identifier].tokens,
                   elapsed |-> IF fresh THEN 0
                               ELSE now - buckets[identifier].last_update,
                   result |-> r.allowed]
        /\ UNCHANGED <<now, global_bucket, throttleVars, breakerVars, cacheVars,
                       dbVars, threadVars, trace, recent_failures, nreq>>

\* a direct call of rate_limiter.is_globally_allowed
IsGloballyAllowed(capacity, refill_rate) ==
    LET r == is_globally_allowed(global_bucket, capacity, refill_rate, now)
    IN  /\ global_bucket' = r.bucket
        /\ burst' = burst_after("global_bucket", ~global_bucket.initialized,
                                capacity, r.allowed)
        /\ ret' = [op |-> "is_globally_allowed", capacity |-> capacity,
                   refill_rate |-> refill_rate, result |-> r.allowed]
        /\ UNCHANGED <<now, buckets, throttleVars, breakerVars, cacheVars,
                       dbVars, threadVars, trace, recent_failures, nreq>>

\* a direct call of rate_limiter.get_retry_after (a KeyError for an unseen
\* identifier: the call is made for identifiers that have a bucket)
GetRetryAfter(identifier, refill_rate) ==
    /\ identifier \in DOMAIN buckets
    /\ ret' = [op |-> "get_retry_after", identifier |-> identifier,
               refill_rate |-> refill_rate,
               result |-> get_retry_after(buckets, identifier, refill_rate)]
    /\ UNCHANGED <<now, limiterVars, throttleVars, breakerVars, cacheVars,
                   dbVars, threadVars, trace, nreq>>

\* time.time() advances by d milliseconds (the clock is taken not to step
\* back between calls)
Advance(d) ==
    /\ now' = now + d
    /\ burst' = [b \in BucketNames |->
                     [NoBurst EXCEPT !.last_cap = burst[b].last_cap]]
    /\ recent_failures' = in_window(recent_failures, now + d)
    /\ ret' = [op |-> "tick", d |-> d]

LimiterTick ==
    \E d \in LimiterTicks :
        /\ now + d <= T0 + MaxLimiterSec * MsPerSec
        /\ Advance(d)
        /\ UNCHANGED <<buckets, global_bucket, throttleVars, circuit_breaker,
                       cacheVars, dbVars, threadVars, trace, nreq>>

\* a call of an operation decorated with throttle_request(min_delay_ms):
\* refused with 503 and retry_after, or stamped and passed to the function
ThrottleRequest(site) ==
    LET g == throttle_gate(last_request_time, SiteDelay[site], now)
    IN  /\ last_request_time' = g.last_request_time
        /\ \E retry \in (IF g.allowed THEN {0} ELSE round2(g.remaining)) :
               ret' = [op |-> "throttle_request", site |-> site,
                       min_delay_ms |-> SiteDelay[site],
                       allowed |-> g.allowed, invoked |-> g.allowed,
                       retry_after |-> retry]
        /\ UNCHANGED <<now, limiterVars, breakerVars, cacheVars,
                       dbVars, threadVars,
                       trace, nreq>>

ThrottleTick ==
    \E d \in ThrottleTicks :
        /\ now + d <= T0 + MaxThrottleMs
        /\ Advance(d)
        /\ UNCHANGED <<buckets, global_bucket, throttleVars, circuit_breaker,
                       cacheVars, dbVars, threadVars, trace, nreq>>

\* a direct call of circuit_breaker_check
CircuitBreakerCheck ==
    LET c == circuit_breaker_check(circuit_breaker, now)
    IN  /\ circuit_breaker' = c.cb
        /\ ret' = [op |-> "circuit_breaker_check",
                   was_open |-> circuit_breaker.is_open, result |-> c.open]
        /\ UNCHANGED <<now, limiterVars, throttleVars, recent_failures,
                       cacheVars, dbVars, threadVars, trace, nreq>>

\* a direct call of record_failure
RecordFailure ==
    /\ circuit_breaker.failures < MaxFailures
    /\ circuit_breaker' = record_failure(circuit_breaker, now)
    /\ recent_failures' = in_window(Append(recent_failures, now), now)
    /\ ret' = [op |-> "record_failure"]
    /\ UNCHANGED <<now, limiterVars, throttleVars, cacheVars,
                   dbVars, threadVars,
                   trace, nreq>>

\* a call of a function decorated with with_circuit_breaker
WithCircuitBreaker(outcome, dur) ==
    LET w == with_circuit_breaker(circuit_breaker, now, outcome, dur)
    IN  /\ outcome = "raise" => circuit_breaker.failures < MaxFailures
        /\ w.now <= T0 + MaxBreakerSec * MsPerSec
        /\ circuit_breaker' = w.cb
        /\ now' = w.now
        /\ recent_failures' =
               in_window(IF w.raised THEN Append(recent_failures, w.now)
                         ELSE recent_failures, w.now)
        /\ ret' = [op |-> "with_circuit_breaker", refused |-> w.refused,
                   invoked |-> w.invoked, raised |-> w.raised,
                   work_calls |-> w.work_calls, returns |-> w.returns,
                   retry_after |-> IF w.refused THEN CIRCUIT_BREAKER_TIMEOUT
                                   ELSE 0]
        /\ UNCHANGED <<limiterVars, throttleVars, cacheVars,
                       dbVars, threadVars,
                       trace, nreq>>

BreakerTick ==
    \E d \in BreakerTicks :
        /\ now + d <= T0 + MaxBreakerSec * MsPerSec
        /\ Advance(d)
        /\ UNCHANGED <<buckets, global_bucket, throttleVars, circuit_breaker,
                       cacheVars, dbVars, threadVars, trace, nreq>>

\* ================================================================ main.py

\* a request from ip to a rate-limited endpoint: rate_limit.wrapper, then the
\* handler, which answers 500 without a database and otherwise (add_user)
\* fetches the handle's stats through the cache; the upstream fetch returns
\* value or raises, and the handler turns an exception into a 500
Request(ip, endpoint, handle, outcome, value) ==
    \E rl \in {rate_limit(global_bucket, buckets, ip,
                          RATE_LIMITS[ENDPOINTS[endpoint].preset].capacity,
                          RATE_LIMITS[ENDPOINTS[endpoint].preset].refill_rate,
                          now)} :
    \E f \in {cached(cache, stats, "fetch_gfg_detailed_stats", <<handle>>,
                     STATS_TTL, now, outcome, value)} :
        LET passed == reaches_handler(rl)
            fetch == passed /\ supabase /\ ENDPOINTS[endpoint].cached
        IN  /\ nreq < MaxRequests
            /\ nreq' = nreq + 1
            /\ global_bucket' = rl.global_bucket
            /\ buckets' = rl.buckets
            /\ cache' = IF fetch THEN f.cache ELSE cache
            /\ stats' = IF fetch THEN f.stats ELSE stats
            /\ last_write' =
                   IF fetch
                   THEN noted_cached(last_write, cache, f,
                                     generate_key("fetch_gfg_detailed_stats",
                                                  <<handle>>),
                                     value, STATS_TTL, now)
                   ELSE last_write
            /\ trace' = IF fetch THEN rl.gates \o f.gates ELSE rl.gates
            /\ ret' = [op |-> "request", ip |-> ip, endpoint |-> endpoint,
                       handle |-> handle,
                       denied_by |-> rl.denied_by,
                       retry_after |-> rl.retry_after,
                       handler |-> passed,
                       status |-> IF ~passed THEN rl.status
                                  ELSE IF ~supabase \/ (fetch /\ f.raised)
                                  THEN 500 ELSE 200]
            /\ UNCHANGED <<now, burst, throttleVars, breakerVars, dbVars,
                           threadVars>>

RequestTick ==
    \E d \in RequestTicks :
        /\ now + d <= T0 + MaxRequestSec * MsPerSec
        /\ Advance(d)
        /\ UNCHANGED <<buckets, global_bucket, throttleVars, circuit_breaker,
                       cacheVars, dbVars, threadVars, trace, nreq>>

\* the state after the modules are imported: RateLimiter.__init__,
\* request_throttler's globals, CacheManager.__init__
\* the keys the cache specification works with
CacheKeys == {generate_key("work", <<h>>) : h \in CacheHandles}

\* a direct call of cache.get
CacheGet(key) ==
    \E g \in {cache_get(cache, stats, key, now)} :
        LET i == position(cache, key)
            found == IF i = 0 THEN "absent"
                     ELSE IF now < cache[i].expires_at THEN "live"
                     ELSE "expired"
        IN  /\ nreq < MaxCacheOps
            /\ nreq' = nreq + 1
            /\ cache' = g.cache
            /\ stats' = g.stats
            /\ last_write' = IF found = "live"
                             THEN noted_hit(last_write, key) ELSE last_write
            /\ ret' = [op |-> "cache.get", key |-> key, found |-> found,
                       result |-> g.value]
            /\ UNCHANGED <<now, limiterVars, throttleVars, breakerVars,
                           dbVars, threadVars, trace>>

\* a direct call of cache.set on a store of MaxSize entries
CacheSet(key, value, ttl) ==
    \E w \in {cache_set(cache, stats, key, value, ttl, now, MaxSize)} :
        /\ nreq < MaxCacheOps
        /\ nreq' = nreq + 1
        /\ cache' = w.cache
        /\ stats' = w.stats
        /\ last_write' = noted_set(last_write, key, value, ttl, now,
                                   Keys(cache) \ Keys(w.cache))
        /\ ret' = [op |-> "cache.set", key |-> key, value |-> value,
                   ttl |-> ttl, was_present |-> key \in Keys(cache),
                   was_full |-> Len(cache) = MaxSize,
                   lost |-> Keys(cache) \ Keys(w.cache)]
        /\ UNCHANGED <<now, limiterVars, throttleVars, breakerVars,
                       dbVars, threadVars, trace>>

\* a direct call of cache.invalidate
CacheInvalidate(key) ==
    \E v \in {cache_invalidate(cache, stats, key)} :
        /\ nreq < MaxCacheOps
        /\ nreq' = nreq + 1
        /\ cache' = v.cache
        /\ stats' = v.stats
        /\ last_write' = noted_drop(last_write, {key})
        /\ ret' = [op |-> "cache.invalidate", key |-> key,
                   was_present |-> key \in Keys(cache)]
        /\ UNCHANGED <<now, limiterVars, throttleVars, breakerVars,
                       dbVars, threadVars, trace>>

\* a direct call of cache.clear
CacheClear ==
    \E v \in {cache_clear(cache, stats)} :
        /\ nreq < MaxCacheOps
        /\ nreq' = nreq + 1
        /\ cache' = v.cache
        /\ stats' = v.stats
        /\ last_write' = noted_drop(last_write, DOMAIN last_write)
        /\ ret' = [op |-> "cache.clear", before |-> stats,
                   dropped |-> Len(cache)]
        /\ UNCHANGED <<now, limiterVars, throttleVars, breakerVars,
                       dbVars, threadVars, trace>>

\* a direct call of cache.get_stats
CacheGetStats ==
    /\ ret' = [op |-> "cache.get_stats", result |-> get_stats(cache, stats)]
    /\ UNCHANGED <<now, limiterVars, throttleVars, breakerVars, cacheVars,
                   dbVars, threadVars, trace, nreq>>

CacheTick ==
    \E d \in CacheTicks :
        /\ now + d <= T0 + MaxCacheSec * MsPerSec
        /\ Advance(d)
        /\ UNCHANGED <<buckets, global_bucket, throttleVars, circuit_breaker,
                       cacheVars, dbVars, threadVars, trace, nreq>>

\* a call of points.fetch_gfg_detailed_stats, which is wrapped by
\* cached(ttl=21600) over the module's cache
Cached(handle, outcome, value) ==
    \E f \in {cached(cache, stats, "fetch_gfg_detailed_stats", <<handle>>,
                     STATS_TTL, now, outcome, value)} :
        LET key == generate_key("fetch_gfg_detailed_stats", <<handle>>)
        IN  /\ nreq < MaxFetches
            /\ nreq' = nreq + 1
            /\ cache' = f.cache
            /\ stats' = f.stats
            /\ last_write' = noted_cached(last_write, cache, f, key, value,
                                          STATS_TTL, now)
            /\ trace' = f.gates
            /\ ret' = [op |-> "cached", key |-> key, outcome |-> outcome,
                       raised |-> f.raised, result |-> f.result,
                       executed |-> Len(f.gates) = 2,
                       held |-> IF key \notin Keys(cache) THEN "absent"
                                ELSE IF now >=
                                        cache[position(cache, key)].expires_at
                                THEN "expired"
                                ELSE IF cache[position(cache, key)].value = None
                                THEN "none" ELSE "live"]
            /\ UNCHANGED <<now, limiterVars, throttleVars, breakerVars,
                           dbVars, threadVars>>

\* a call of cache._generate_key, as the cached wrapper makes it
GenerateKey(func_name, args, kwargs) ==
    /\ ret' = [op |-> "generate_key", func |-> func_name, args |-> args,
               kwargs |-> kwargs,
               result |-> fingerprint(func_name, args, kwargs)]
    /\ UNCHANGED <<now, limiterVars, throttleVars, breakerVars, cacheVars,
                   dbVars, threadVars, trace, nreq>>

\* the wrapper stores a result under the key it has just made
StoreUnderKey ==
    /\ ret.op = "generate_key"
    /\ CacheSet(ret.result, "v1", 1)

CachedTick ==
    \E d \in FetchTicks :
        /\ now + d <= T0 + MaxFetchHours * 3600 * MsPerSec
        /\ Advance(d)
        /\ UNCHANGED <<buckets, global_bucket, throttleVars, circuit_breaker,
                       cacheVars, dbVars, threadVars, trace, nreq>>

\* ------------------------------------------------------------ threads
\* The server runs each request in a thread of its own (app.run, main.py
\* line 523) and no module takes a lock: a call is a sequence of statements,
\* and between two statements of one thread any other thread may run.

Idle == [pc |-> "idle"]
NoTally == [granted |-> 0, created |-> 0, failed |-> 0, admitted |-> <<>>]
ThreadRefillRate == PerSec05

\* a thread starts a call: fn and its arguments go into its frame
ThreadCall(th, frame) ==
    /\ frames[th].pc = "idle"
    /\ nreq < MaxThreadCalls
    /\ nreq' = nreq + 1
    /\ frames' = [frames EXCEPT ![th] = frame]
    /\ UNCHANGED <<now, limiterVars, throttleVars, breakerVars, cacheVars,
                   dbVars, tally, ret, trace>>

\* a thread returns from its call
Returns(th, result) ==
    ret' = [op |-> frames[th].fn, thread |-> th, result |-> result]

\* the frame of a call of rate_limiter.is_allowed; bucket is the dict the
\* local variable of that name refers to: none yet, the one in
\* self.buckets, or one that another thread has replaced there since
IsAllowedFrame(identifier, capacity, refill_rate) ==
    [pc |-> "L35", fn |-> "is_allowed", identifier |-> identifier,
     capacity |-> capacity, refill_rate |-> refill_rate,
     bucket |-> "none", own |-> Idle, t |-> 0, elapsed |-> 0]

\* one statement of RateLimiter.is_allowed and of the _refill_bucket it
\* calls, named by its line
IsAllowedStep(th) ==
    LET f == frames[th]
        b == IF f.bucket = "own" THEN f.own ELSE buckets[f.identifier]
        \* the statement wrote b2 to the dict that bucket refers to
        Write(b2, f2) ==
            IF f.bucket = "own"
            THEN /\ frames' = [frames EXCEPT ![th] = [f2 EXCEPT !.own = b2]]
                 /\ UNCHANGED buckets
            ELSE /\ frames' = [frames EXCEPT ![th] = f2]
                 /\ buckets' = [buckets EXCEPT ![f.identifier] = b2]
    IN  /\ f.pc # "idle" /\ f.fn = "is_allowed"
        /\ CASE f.pc = "L35" ->
                 /\ frames' = [frames EXCEPT ![th].pc =
                                   IF f.identifier \in DOMAIN buckets
                                   THEN "L41" ELSE "L36"]
                 /\ UNCHANGED <<buckets, tally, ret>>
             [] f.pc = "L36" ->
                 /\ buckets' =
                        [k \in DOMAIN buckets \cup {f.identifier} |->
                            IF k = f.identifier
                            THEN new_bucket(f.capacity, now)
                            ELSE buckets[k]]
                 /\ frames' =
                        [o \in Threads |->
                            IF o = th THEN [f EXCEPT !.pc = "L41"]
                            ELSE IF /\ frames[o].pc # "idle"
                                    /\ frames[o].fn = "is_allowed"
                                    /\ frames[o].identifier = f.identifier
                                    /\ frames[o].bucket = "shared"
                            THEN [frames[o] EXCEPT
                                      !.bucket = "own",
                                      !.own = buckets[f.identifier]]
                            ELSE frames[o]]
                 /\ tally' = [tally EXCEPT !.created = @ + 1]
                 /\ UNCHANGED ret
             [] f.pc = "L41" ->
                 /\ frames' = [frames EXCEPT ![th].pc = "L19",
                                             ![th].bucket = "shared"]
                 /\ UNCHANGED <<buckets, tally, ret>>
             [] f.pc = "L19" ->
                 /\ frames' = [frames EXCEPT
                                   ![th].pc = "L23", ![th].t = now,
                                   ![th].elapsed = now - b.last_update]
                 /\ UNCHANGED <<buckets, tally, ret>>
             [] f.pc = "L23" ->
                 /\ Write([b EXCEPT !.tokens =
                               Min(f.capacity * TOKEN,
                                   b.tokens + f.elapsed * f.refill_rate)],
                          [f EXCEPT !.pc = "L24"])
                 /\ UNCHANGED <<tally, ret>>
             [] f.pc = "L24" ->
                 /\ Write([b EXCEPT !.last_update = f.t],
                          [f EXCEPT !.pc = "L26"])
                 /\ UNCHANGED <<tally, ret>>
             [] f.pc = "L26" ->
                 IF b.tokens >= TOKEN
                 THEN /\ frames' = [frames EXCEPT ![th].pc = "L48"]
                      /\ UNCHANGED <<buckets, tally, ret>>
                 ELSE /\ frames' = [frames EXCEPT ![th] = Idle]
                      /\ Returns(th, FALSE)
                      /\ UNCHANGED <<buckets, tally>>
             [] f.pc = "L48" ->
                 /\ Write([b EXCEPT !.tokens = @ - TOKEN], Idle)
                 /\ tally' = [tally EXCEPT !.granted = @ + 1]
                 /\ Returns(th, TRUE)
        /\ UNCHANGED <<now, global_bucket, burst, throttleVars, breakerVars,
                       cacheVars, dbVars, trace, nreq>>

\* the frame of a call of cache.get, cache.set or cache.invalidate
CacheFrame(fn, key) ==
    [pc |-> IF fn = "get" THEN "L33" ELSE IF fn = "set" THEN "L51"
            ELSE "L64",
     fn |-> fn, key |-> key, entry |-> Idle]

\* one statement of CacheManager.get, set or invalidate, named by its line;
\* a statement that reads or removes a key the dict does not hold, or pops
\* from an empty dict, raises KeyError
CacheStep(th) ==
    LET f == frames[th]
        i == position(cache, f.key)
        Goto(pc) ==
            /\ frames' = [frames EXCEPT ![th].pc = pc]
            /\ UNCHANGED <<tally, ret>>
        Done(result) ==
            /\ frames' = [frames EXCEPT ![th] = Idle]
            /\ Returns(th, result)
            /\ UNCHANGED tally
        KeyError ==
            /\ frames' = [frames EXCEPT ![th] = Idle]
            /\ tally' = [tally EXCEPT !.failed = @ + 1]
            /\ Returns(th, "KeyError")
            /\ UNCHANGED <<cache, stats>>
    IN  /\ f.pc # "idle" /\ f.fn \in {"get", "set", "invalidate"}
        /\ CASE f.pc = "L33" ->
                 /\ Goto(IF i # 0 THEN "L34" ELSE "L45")
                 /\ UNCHANGED <<cache, stats>>
             [] f.pc = "L34" ->
                 IF i = 0 THEN KeyError
                 ELSE /\ frames' = [frames EXCEPT
                                        ![th].entry = cache[i],
                                        ![th].pc =
                                            IF now < cache[i].expires_at
                                            THEN "L38" ELSE "L43"]
                      /\ UNCHANGED <<cache, stats, tally, ret>>
             [] f.pc = "L38" ->
                 IF i = 0 THEN KeyError
                 ELSE /\ cache' = Append(without(cache, i), cache[i])
                      /\ Goto("L39")
                      /\ UNCHANGED stats
             [] f.pc = "L39" ->
                 /\ stats' = [stats EXCEPT !.hits = @ + 1]
                 /\ Done(f.entry.value)
                 /\ UNCHANGED cache
             [] f.pc = "L43" ->
                 IF i = 0 THEN KeyError
                 ELSE /\ cache' = without(cache, i)
                      /\ Goto("L45")
                      /\ UNCHANGED stats
             [] f.pc = "L45" ->
                 /\ stats' = [stats EXCEPT !.misses = @ + 1]
                 /\ Done(None)
                 /\ UNCHANGED cache
             [] f.pc = "L51" ->
                 /\ Goto(IF Len(cache) >= MaxSize THEN "L52" ELSE "L55")
                 /\ UNCHANGED <<cache, stats>>
             [] f.pc = "L52" ->
                 IF cache = <<>> THEN KeyError
                 ELSE /\ cache' = Tail(cache)
                      /\ Goto("L53")
                      /\ UNCHANGED stats
             [] f.pc = "L53" ->
                 /\ stats' = [stats EXCEPT !.evictions = @ + 1]
                 /\ Goto("L55")
                 /\ UNCHANGED cache
             [] f.pc = "L55" ->
                 LET entry == [key |-> f.key, value |-> "v1",
                               expires_at |-> now + MsPerSec,
                               created_at |-> now]
                 IN  /\ cache' = IF i # 0 THEN [cache EXCEPT ![i] = entry]
                                  ELSE Append(cache, entry)
                     /\ Goto("L60")
                     /\ UNCHANGED stats
             [] f.pc = "L60" ->
                 IF i = 0 THEN KeyError
                 ELSE /\ cache' = Append(without(cache, i), cache[i])
                      /\ Done(None)
                      /\ UNCHANGED stats
             [] f.pc = "L64" ->
                 IF i # 0
                 THEN /\ Goto("L65")
                      /\ UNCHANGED <<cache, stats>>
                 ELSE /\ Done(None)
                      /\ UNCHANGED <<cache, stats>>
             [] f.pc = "L65" ->
                 IF i = 0 THEN KeyError
                 ELSE /\ cache' = without(cache, i)
                      /\ Done(None)
                      /\ UNCHANGED stats
        /\ UNCHANGED <<now, limiterVars, throttleVars, breakerVars,
                       last_write, dbVars, trace, nreq>>

\* the frame of a call of a function decorated with throttle_request
ThrottleFrame(min_delay_ms) ==
    [pc |-> "L34", fn |-> "throttle_request", min_delay_ms |-> min_delay_ms,
     current_time |-> 0]

\* one statement of throttle_request.wrapper, named by its line
ThrottleStep(th) ==
    LET f == frames[th]
    IN  /\ f.pc # "idle" /\ f.fn = "throttle_request"
        /\ CASE f.pc = "L34" ->
                 /\ frames' = [frames EXCEPT ![th].pc = "L38",
                                             ![th].current_time = now]
                 /\ UNCHANGED <<last_request_time, tally, ret>>
             [] f.pc = "L38" ->
                 IF f.current_time - last_request_time < f.min_delay_ms
                 THEN /\ frames' = [frames EXCEPT ![th] = Idle]
                      /\ Returns(th, FALSE)
                      /\ UNCHANGED <<last_request_time, tally>>
                 ELSE /\ frames' = [frames EXCEPT ![th].pc = "L50"]
                      /\ UNCHANGED <<last_request_time, tally, ret>>
             [] f.pc = "L50" ->
                 /\ last_request_time' = f.current_time
                 /\ frames' = [frames EXCEPT ![th] = Idle]
                 /\ tally' = [tally EXCEPT
                                  !.admitted = Append(@, f.current_time)]
                 /\ Returns(th, TRUE)
        /\ UNCHANGED <<now, limiterVars, breakerVars, cacheVars, dbVars,
                       trace, nreq>>

ThreadTick ==
    \E d \in ThreadTicks :
        /\ now + d <= T0 + MaxThreadSec * MsPerSec
        /\ Advance(d)
        /\ UNCHANGED <<buckets, global_bucket, throttleVars, circuit_breaker,
                       cacheVars, dbVars, threadVars, trace, nreq>>

\* ================================================================ refer.py
\* A table is the sequence of its rows. The repository declares no key or
\* uniqueness constraint for any table, so insert adds a row whatever rows
\* are there.

\* supabase.table(t).select('*').eq(column, value).execute().data
select(table, column, value) ==
    SelectSeq(table, LAMBDA row : row[column] = value)

\* supabase.table(t).insert(row).execute()
insert(table, row) == Append(table, row)

\* supabase.table(t).update({field: value}).eq(column, match).execute()
update(table, column, match, field, value) ==
    [i \in 1..Len(table) |->
        IF table[i][column] = match
        THEN [table[i] EXCEPT ![field] = value]
        ELSE table[i]]

\* award_referral_points, lines 147-169: user_points after the write that
\* follows the select whose result is existing
award_write(table, existing, username, points) ==
    IF Len(existing) > 0
    THEN update(update(table, "username", username, "referral_points",
                       existing[1].referral_points + points),
                "username", username, "total_points",
                existing[1].total_points + points)
    ELSE insert(table, [username |-> username, referral_points |-> points,
                        total_points |-> points])

\* the frame of a call of refer.use_referral_code with its locals;
\* used_before, own_code and wrote are history: whether a use by
\* new_username was recorded when the call began, whether the code is
\* new_username's own, whether the call has written to a table
UseReferralCodeFrame(new_username, referral_code) ==
    [pc |-> "L78", fn |-> "use_referral_code",
     new_username |-> new_username, referral_code |-> referral_code,
     referrer_username |-> "", referral_count |-> 0,
     site |-> "", username |-> "", existing |-> <<>>,
     used_before |-> Len(select(referral_uses, "new_user",
                                new_username)) > 0,
     own_code |-> \E i \in 1..Len(referrals) :
                      /\ referrals[i].username = new_username
                      /\ referrals[i].referral_code = referral_code,
     wrote |-> FALSE]

\* one statement of use_referral_code, or of the award_referral_points it
\* calls, named by its line; a statement makes at most one database call.
\* The fetch of line 84 returns value or raises
UseReferralCodeStep(th, outcome, value) ==
    LET f == frames[th]
        Goto(f2) ==
            /\ frames' = [frames EXCEPT ![th] = f2]
            /\ UNCHANGED ret
        Return(success, error, wrote) ==
            /\ frames' = [frames EXCEPT ![th] = Idle]
            /\ ret' = [op |-> "use_referral_code", thread |-> th,
                       new_username |-> f.new_username,
                       referral_code |-> f.referral_code,
                       success |-> success, error |-> error,
                       used_before |-> f.used_before,
                       own_code |-> f.own_code, wrote |-> wrote]
    IN  /\ f.pc # "idle" /\ f.fn = "use_referral_code"
        /\ CASE f.pc = "L78" ->
                 /\ IF ~supabase
                    THEN Return(FALSE, "Supabase not configured", f.wrote)
                    ELSE Goto([f EXCEPT !.pc = "L84"])
                 /\ UNCHANGED <<cacheVars, tableVars>>
             [] f.pc = "L84" ->
                 \E g \in {cached(cache, stats, "fetch_gfg_detailed_stats",
                                  <<f.new_username>>, STATS_TTL, now,
                                  outcome, value)} :
                     /\ cache' = g.cache
                     /\ stats' = g.stats
                     /\ last_write' =
                            noted_cached(last_write, cache, g,
                                         generate_key(
                                             "fetch_gfg_detailed_stats",
                                             <<f.new_username>>),
                                         value, STATS_TTL, now)
                     /\ IF g.raised
                        THEN Return(FALSE, "ValueError", f.wrote)
                        ELSE Goto([f EXCEPT !.pc = "L91"])
                     /\ UNCHANGED tableVars
             [] f.pc = "L91" ->
                 LET referrer == select(referrals, "referral_code",
                                        f.referral_code)
                 IN  /\ IF Len(referrer) = 0
                        THEN Return(FALSE, "Invalid referral code", f.wrote)
                        ELSE IF referrer[1].username = f.new_username
                        THEN Return(FALSE,
                                    "Cannot use your own referral code",
                                    f.wrote)
                        ELSE Goto([f EXCEPT
                                      !.pc = "L103",
                                      !.referrer_username =
                                          referrer[1].username,
                                      !.referral_count =
                                          referrer[1].referral_count])
                     /\ UNCHANGED <<cacheVars, tableVars>>
             [] f.pc = "L103" ->
                 /\ IF Len(select(referral_uses, "new_user",
                                  f.new_username)) > 0
                    THEN Return(FALSE,
                                "You have already used a referral code",
                                f.wrote)
                    ELSE Goto([f EXCEPT !.pc = "L117"])
                 /\ UNCHANGED <<cacheVars, tableVars>>
             [] f.pc = "L117" ->
                 /\ referral_uses' =
                        insert(referral_uses,
                               [referrer |-> f.referrer_username,
                                new_user |-> f.new_username,
                                referral_code |-> f.referral_code])
                 /\ Goto([f EXCEPT !.pc = "L121", !.wrote = TRUE])
                 /\ UNCHANGED <<cacheVars, referrals, user_points>>
             [] f.pc = "L121" ->
                 /\ referrals' = update(referrals, "referral_code",
                                        f.referral_code, "referral_count",
                                        f.referral_count + 1)
                 /\ Goto([f EXCEPT !.pc = "L145", !.site = "L126",
                                   !.username = f.referrer_username])
                 /\ UNCHANGED <<cacheVars, referral_uses, user_points>>
             [] f.pc = "L145" ->
                 /\ Goto([f EXCEPT !.pc = "L147",
                                   !.existing = select(user_points,
                                                       "username",
                                                       f.username)])
                 /\ UNCHANGED <<cacheVars, tableVars>>
             [] f.pc = "L147" ->
                 /\ user_points' = award_write(user_points, f.existing,
                                               f.username, REFERRAL_POINTS)
                 /\ IF f.site = "L126"
                    THEN Goto([f EXCEPT !.pc = "L145", !.site = "L127",
                                        !.username = f.new_username,
                                        !.existing = <<>>])
                    ELSE Return(TRUE, "", f.wrote)
                 /\ UNCHANGED <<cacheVars, referrals, referral_uses>>
        /\ UNCHANGED <<now, limiterVars, throttleVars, breakerVars,
                       supabase, tally, trace, nreq>>

Init ==
    /\ now = T0
    /\ buckets = <<>>
    /\ global_bucket = [tokens |-> 0, last_update |-> T0, initialized |-> FALSE]
    /\ last_request_time = 0
    /\ circuit_breaker = [failures |-> 0, last_failure |-> 0,
                          is_open |-> FALSE, opened_at |-> 0]
    /\ cache = <<>>
    /\ stats = [hits |-> 0, misses |-> 0, evictions |-> 0]
    /\ supabase = TRUE
    /\ ret = NoCall
    /\ trace = <<>>
    /\ burst = [b \in BucketNames |-> NoBurst]
    /\ recent_failures = <<>>
    /\ last_write = <<>>
    /\ frames = [th \in Threads |-> Idle]
    /\ tally = NoTally
    /\ nreq = 0
    /\ referrals = <<>>
    /\ referral_uses = <<>>
    /\ user_points = <<>>

\* the process under load: the global bucket as constructed, or at a level
\* that earlier requests left it at; the database connected or not
InitServing ==
    /\ now = T0
    /\ buckets = <<>>
    /\ global_bucket \in
           {[tokens |-> 0, last_update |-> T0, initialized |-> FALSE]} \cup
           {[tokens |-> k * TOKEN, last_update |-> T0, initialized |-> TRUE] :
                k \in 0..MaxGlobalStart}
    /\ last_request_time = 0
    /\ circuit_breaker = [failures |-> 0, last_failure |-> 0,
                          is_open |-> FALSE, opened_at |-> 0]
    /\ cache = <<>>
    /\ stats = [hits |-> 0, misses |-> 0, evictions |-> 0]
    /\ supabase \in BOOLEAN
    /\ ret = NoCall
    /\ trace = <<>>
    /\ burst = [b \in BucketNames |-> NoBurst]
    /\ recent_failures = <<>>
    /\ last_write = <<>>
    /\ frames = [th \in Threads |-> Idle]
    /\ tally = NoTally
    /\ nreq = 0
    /\ referrals = <<>>
    /\ referral_uses = <<>>
    /\ user_points = <<>>

\* the referral system in service: create_referral_code (lines 52-59) has
\* given u1 and u2 a code each, u3 has none yet; nobody has used a code
InitRefer ==
    /\ now = T0
    /\ buckets = <<>>
    /\ global_bucket = [tokens |-> 0, last_update |-> T0, initialized |-> FALSE]
    /\ last_request_time = 0
    /\ circuit_breaker = [failures |-> 0, last_failure |-> 0,
                          is_open |-> FALSE, opened_at |-> 0]
    /\ cache = <<>>
    /\ stats = [hits |-> 0, misses |-> 0, evictions |-> 0]
    /\ supabase \in BOOLEAN
    /\ ret = NoCall
    /\ trace = <<>>
    /\ burst = [b \in BucketNames |-> NoBurst]
    /\ recent_failures = <<>>
    /\ last_write = <<>>
    /\ frames = [th \in Threads |-> Idle]
    /\ tally = NoTally
    /\ nreq = 0
    /\ referrals = <<[username |-> "u1", referral_code |-> "U1XAAAAA",
                      referral_count |-> 0],
                     [username |-> "u2", referral_code |-> "U2XBBBBB",
                      referral_count |-> 0]>>
    /\ referral_uses = <<>>
    /\ user_points = <<>>

Next ==
    \/ \E ip \in Identifiers, endpoint \in DOMAIN ENDPOINTS, handle \in Handles,
          outcome \in {"ok", "raise"}, value \in Values :
           Request(ip, endpoint, handle, outcome, value)
    \/ RequestTick

Spec == InitServing /\ [][Next]_vars

NextLimiter ==
    \/ \E id \in LimiterIds, c \in Capacities, r \in RefillRates :
           IsAllowed(id, c, r)
    \/ \E c \in Capacities, r \in RefillRates : IsGloballyAllowed(c, r)
    \/ \E id \in LimiterIds, r \in RetryRates : GetRetryAfter(id, r)
    \/ LimiterTick

SpecLimiter == Init /\ [][NextLimiter]_vars


NextThrottle ==
    \/ \E site \in ThrottleSites : ThrottleRequest(site)
    \/ ThrottleTick

SpecThrottle == Init /\ [][NextThrottle]_vars

NextBreaker ==
    \/ CircuitBreakerCheck
    \/ RecordFailure
    \/ \E outcome \in {"ok", "raise"}, dur \in WorkDurations :
           WithCircuitBreaker(outcome, dur)
    \/ BreakerTick

SpecBreaker == Init /\ [][NextBreaker]_vars

NextCache ==
    \/ \E key \in CacheKeys : CacheGet(key)
    \/ \E key \in CacheKeys, w \in CacheWrites :
           CacheSet(key, w.value, w.ttl)
    \/ \E key \in CacheKeys : CacheInvalidate(key)
    \/ CacheClear
    \/ CacheGetStats
    \/ CacheTick

SpecCache == Init /\ [][NextCache]_vars

NextCached ==
    \/ \E handle \in FetchHandles, outcome \in {"ok", "raise"},
          value \in FetchValues : Cached(handle, outcome, value)
    \/ CacheGetStats
    \/ CachedTick

SpecCached == Init /\ [][NextCached]_vars

NextKey ==
    \/ \E args \in KeyArgs, kwargs \in KeywordCalls :
           GenerateKey("fetch_gfg_detailed_stats", args, kwargs)
    \/ StoreUnderKey
    \/ CacheClear

SpecKey == Init /\ [][NextKey]_vars

NextLimiterThreads ==
    \/ \E th \in Threads :
           ThreadCall(th, IsAllowedFrame("ip1", ThreadCapacity,
                                         ThreadRefillRate))
    \/ \E th \in Threads : IsAllowedStep(th)
    \/ ThreadTick

SpecLimiterThreads == Init /\ [][NextLimiterThreads]_vars

NextCacheThreads ==
    \/ \E th \in Threads, fn \in {"get", "set", "invalidate"},
          key \in CacheKeys : ThreadCall(th, CacheFrame(fn, key))
    \/ \E th \in Threads : CacheStep(th)
    \/ ThreadTick

SpecCacheThreads == Init /\ [][NextCacheThreads]_vars

NextThrottleThreads ==
    \/ \E th \in Threads :
           ThreadCall(th, ThrottleFrame(DEFAULT_MIN_DELAY_MS))
    \/ \E th \in Threads : ThrottleStep(th)
    \/ ThreadTick

SpecThrottleThreads == Init /\ [][NextThrottleThreads]_vars

NextRefer ==
    \/ \E th \in Threads, new_username \in ReferralUsers,
          referral_code \in ReferralCodes :
           ThreadCall(th, UseReferralCodeFrame(new_username, referral_code))
    \/ \E th \in Threads, outcome \in {"ok", "raise"}, value \in Values :
           UseReferralCodeStep(th, outcome, value)

SpecRefer == InitRefer /\ [][NextRefer]_vars

\* ------------------------------------------------------ endpoint claims

GateOrder ==
    <<"throttle", "circuit_breaker", "global_limiter",
      "per_identifier_limiter", "cache_lookup", "work">>

\* C1: every protected call evaluates the throttle gate, the circuit-breaker
\* check, the global limiter, the per-identifier limiter and the cache
\* lookup in this order and runs the work last, stopping at the first gate
\* that denies (or at a cache hit): what a request evaluated is a non-empty
\* initial part of that order.
C1_FixedGateOrder ==
    ret.op = "request" =>
        \E n \in 1..Len(GateOrder) : trace = SubSeq(GateOrder, 1, n)

\* C2: when the global bucket is exhausted the request is refused by the
\* global limiter, also when the caller's own bucket is exhausted too; a
\* global refusal leaves every per-identifier bucket as it was (none
\* created, refilled or decremented) and does not run the handler.
C2_GlobalDenialFirst ==
    [][ret'.op = "request" =>
        LET grown == global_bucket.tokens
                        + (now - global_bucket.last_update) * PerSec10
            global_exhausted == global_bucket.initialized /\ grown < TOKEN
        IN  /\ global_exhausted => ret'.denied_by = "global"
            /\ ret'.denied_by = "global" =>
                   /\ buckets' = buckets
                   /\ ~ret'.handler
                   /\ ret'.status = 503
                   /\ trace' = <<"global_limiter">>
                   /\ cache' = cache /\ stats' = stats]_vars

\* a global refusal of a caller whose own bucket is exhausted as well
C2_Witness ==
    /\ ret.op = "request"
    /\ ret.denied_by = "global"
    /\ ret.ip \in DOMAIN buckets
    /\ buckets[ret.ip].tokens
           + (now - buckets[ret.ip].last_update)
                 * RATE_LIMITS[ENDPOINTS[ret.endpoint].preset].refill_rate
       < TOKEN

\* a global refusal of a caller that has no bucket yet
C2_WitnessNoBucket ==
    /\ ret.op = "request"
    /\ ret.denied_by = "global"
    /\ ret.ip \notin DOMAIN buckets

\* ------------------------------------------------------- limiter claims

\* C3: is_allowed refills the bucket to min(capacity, tokens + elapsed *
\* refillRate) and sets lastUpdate = now; it allows exactly when the refilled
\* level is at least one token and then takes exactly one token; a denied
\* call leaves the refilled level in the bucket.
C3_IsAllowedRefillsThenConsumes ==
    [][ret'.op = "is_allowed" =>
        LET id == ret'.identifier
            seen == id \in DOMAIN buckets
            tokens == IF seen THEN buckets[id].tokens
                      ELSE ret'.capacity * TOKEN
            elapsed == IF seen THEN now - buckets[id].last_update ELSE 0
            grown == tokens + elapsed * ret'.refill_rate
            level == IF grown > ret'.capacity * TOKEN
                     THEN ret'.capacity * TOKEN ELSE grown
        IN  /\ buckets'[id].last_update = now
            /\ ret'.result = (level >= TOKEN)
            /\ ret'.result => buckets'[id].tokens = level - TOKEN
            /\ ~ret'.result => buckets'[id].tokens = level]_vars

\* a bucket of capacity 5 and rate 1/s that was drained to 0 is allowed 2 s
\* later and then holds one token
C3_Witness ==
    /\ ret.op = "is_allowed"
    /\ ret.capacity = 5 /\ ret.refill_rate = PerSec1
    /\ ret.before = 0 /\ ret.elapsed = 2000
    /\ ret.result
    /\ buckets[ret.identifier].tokens = TOKEN

\* a call denied after a partial refill
C3_WitnessDenied ==
    /\ ret.op = "is_allowed"
    /\ ~ret.result
    /\ ret.elapsed > 0
    /\ buckets[ret.identifier].tokens > ret.before

\* C4: every bucket holds between 0 and the capacity of the latest call made
\* on it.
C4_TokensWithinCapacity ==
    /\ \A id \in DOMAIN buckets :
           /\ 0 <= buckets[id].tokens
           /\ buckets[id].tokens <= burst[id].last_cap * TOKEN
    /\ 0 <= global_bucket.tokens
    /\ global_bucket.tokens <= burst["global_bucket"].last_cap * TOKEN

\* a bucket holding 4 tokens is called with capacity 1, and the global bucket
\* has been called with a smaller capacity than before
C4_Witness ==
    /\ ret.op = "is_allowed"
    /\ ret.capacity = 1
    /\ ret.before = 4 * TOKEN
    /\ global_bucket.initialized
    /\ burst["global_bucket"].last_cap = 1

\* C5: a bucket is full at its first call: while no time passes and the
\* capacity c is the same, the first c calls are allowed and call c + 1 is
\* denied, for per-identifier buckets and for the global bucket.
C5_FullAtFirstCall ==
    \A b \in BucketNames :
        burst[b].calls > 0 =>
            burst[b].allowed = (IF burst[b].calls <= burst[b].cap
                                THEN burst[b].calls ELSE burst[b].cap)

\* six calls at capacity 5 on a new per-identifier bucket and on the global
\* bucket
C5_Witness ==
    /\ burst["ip1"].cap = 5 /\ burst["ip1"].calls = 6
    /\ burst["global_bucket"].cap = 5 /\ burst["global_bucket"].calls = 6

\* C6: for a bucket holding less than one token get_retry_after returns
\* ceil((1 - tokens) / refillRate), at least 1.
C6_RetryAfterIsCeiling ==
    (ret.op = "get_retry_after" /\ buckets[ret.identifier].tokens < TOKEN) =>
        LET needed == TOKEN - buckets[ret.identifier].tokens
            per_sec == ret.refill_rate * MsPerSec
            whole == needed \div per_sec
            ceiling == IF whole * per_sec = needed THEN whole ELSE whole + 1
        IN  ret.result = ceiling /\ ret.result >= 1


\* ------------------------------------------------------ throttle claims

\* the part of C7 that does not concern the reported delay: the gate denies
\* exactly when now - last_request_time < min_delay, whichever operation was
\* allowed last; a denied call leaves the timestamp and does not run the
\* function, an allowed call stamps now and runs it
ThrottleDecision(elapsed) ==
    /\ ret'.allowed = ~(elapsed < ret'.min_delay_ms)
    /\ ret'.invoked = ret'.allowed
    /\ ret'.allowed => last_request_time' = now
    /\ ~ret'.allowed => last_request_time' = last_request_time

\* C7 as stated: a denied call reports retryAfter = minDelay - elapsed.
C7_RetryAfterIsExactRemainder ==
    [][ret'.op = "throttle_request" =>
        LET elapsed == now - last_request_time
        IN  /\ ThrottleDecision(elapsed)
            /\ ~ret'.allowed =>
                   ret'.retry_after = ret'.min_delay_ms - elapsed]_vars

\* C7 amended: a denied call reports minDelay - elapsed rounded to two
\* decimals of a second (a multiple of 10 ms within 5 ms of the remainder);
\* the decision and the timestamp are as stated.
C7_ThrottleGate ==
    [][ret'.op = "throttle_request" =>
        LET elapsed == now - last_request_time
            remaining == ret'.min_delay_ms - elapsed
        IN  /\ ThrottleDecision(elapsed)
            /\ ~ret'.allowed =>
                   /\ ret'.retry_after % 10 = 0
                   /\ ret'.retry_after - remaining <= 5
                   /\ remaining - ret'.retry_after <= 5]_vars

\* a call with min_delay 500 ms made 100 ms after the last allowed call is
\* denied with retry_after 0.4 s and leaves the timestamp
C7_Witness ==
    /\ ret.op = "throttle_request"
    /\ ret.min_delay_ms = 500
    /\ ~ret.allowed
    /\ now - last_request_time = 100
    /\ ret.retry_after = 400

\* a call allowed at exactly min_delay after the last allowed call
C7_WitnessBoundary ==
    /\ ret.op = "throttle_request"
    /\ ret.allowed
    /\ ret.min_delay_ms = 500
    /\ last_request_time = now
    /\ now = T0 + 500


\* ------------------------------------------------------- breaker claims

CooldownMs == CIRCUIT_BREAKER_TIMEOUT * MsPerSec

\* C8, record_failure: failureCount grows by one, lastFailureTime = now, and
\* the breaker opens (isOpen, openedAt = now) as soon as failureCount >=
\* threshold; below the threshold isOpen and openedAt are as before
RecordFailureStep ==
    ret'.op = "record_failure" =>
        /\ circuit_breaker'.failures = circuit_breaker.failures + 1
        /\ circuit_breaker'.last_failure = now
        /\ IF circuit_breaker.failures + 1 >= CIRCUIT_BREAKER_THRESHOLD
           THEN /\ circuit_breaker'.is_open
                /\ circuit_breaker'.opened_at = now
           ELSE /\ circuit_breaker'.is_open = circuit_breaker.is_open
                /\ circuit_breaker'.opened_at = circuit_breaker.opened_at

\* C8, protected calls: a call made while the breaker is open and now -
\* openedAt <= cooldown is refused without running the work
RefusedWhileOpen ==
    (/\ ret'.op = "with_circuit_breaker"
     /\ circuit_breaker.is_open
     /\ now - circuit_breaker.opened_at <= CooldownMs) =>
        /\ ret'.refused
        /\ ~ret'.invoked
        /\ ret'.retry_after = CIRCUIT_BREAKER_TIMEOUT
        /\ circuit_breaker' = circuit_breaker

\* C8: record_failure counts and opens at the threshold; whenever the last
\* 60 s hold 10 recorded failures the breaker is open, and every protected
\* call within the cooldown of an open breaker is refused without invoking
\* the work.
C8_OpensAtThresholdAndRefuses ==
    /\ [](Len(recent_failures) >= CIRCUIT_BREAKER_THRESHOLD =>
              /\ circuit_breaker.is_open
              /\ now - circuit_breaker.opened_at <= CooldownMs)
    /\ [][RecordFailureStep /\ RefusedWhileOpen]_vars

\* a protected call refused at the very end of the cooldown, the breaker
\* having been opened by 10 failures within the window
C8_Witness ==
    /\ ret.op = "with_circuit_breaker"
    /\ ret.refused /\ ~ret.invoked
    /\ circuit_breaker.is_open
    /\ circuit_breaker.failures = CIRCUIT_BREAKER_THRESHOLD
    /\ now - circuit_breaker.opened_at = CooldownMs

\* ten failures lie in the window and the tenth has just been recorded
C8_WitnessOpened ==
    /\ ret.op = "record_failure"
    /\ Len(recent_failures) = CIRCUIT_BREAKER_THRESHOLD
    /\ circuit_breaker.opened_at = now

\* C9: the breaker goes from Closed to Open only when threshold failures
\* were recorded within one window of FAILURE_WINDOW seconds.
C9_OpensOnlyOnFailuresInWindow ==
    [][(~circuit_breaker.is_open /\ circuit_breaker'.is_open) =>
           Len(recent_failures') >= CIRCUIT_BREAKER_THRESHOLD]_vars

\* C10: an open breaker short-circuits and is left unchanged while now -
\* openedAt <= cooldown; the first check after that closes it with
\* failureCount 0 and returns false, and a closed breaker passes every
\* protected call to the work (no half-open trial).
C10_OpenUntilCooldownThenClosed ==
    [][/\ (ret'.op = "circuit_breaker_check" /\ circuit_breaker.is_open) =>
              IF now - circuit_breaker.opened_at <= CooldownMs
              THEN ret'.result /\ circuit_breaker' = circuit_breaker
              ELSE /\ ~ret'.result
                   /\ circuit_breaker' =
                          [failures |-> 0,
                           last_failure |-> circuit_breaker.last_failure,
                           is_open |-> FALSE,
                           opened_at |-> circuit_breaker.opened_at]
       /\ (/\ ret'.op = "with_circuit_breaker"
           /\ \/ ~circuit_breaker.is_open
              \/ now - circuit_breaker.opened_at > CooldownMs) =>
              ret'.invoked /\ ~ret'.refused]_vars

\* the check that closes the breaker
C10_Witness ==
    /\ ret.op = "circuit_breaker_check"
    /\ ret.was_open /\ ~ret.result
    /\ ~circuit_breaker.is_open
    /\ circuit_breaker.failures = 0
    /\ now - circuit_breaker.opened_at > CooldownMs

\* a check exactly at the end of the cooldown still short-circuits
C10_WitnessBoundary ==
    /\ ret.op = "circuit_breaker_check"
    /\ ret.result
    /\ circuit_breaker.is_open
    /\ now - circuit_breaker.opened_at = CooldownMs


WindowMs == FAILURE_WINDOW * MsPerSec

\* C11: on a closed breaker circuit_breaker_check returns false; it sets
\* failureCount to 0 exactly when now - lastFailureTime > the failure window
\* and leaves it otherwise; nothing else changes.
C11_ClosedCheckDropsStaleFailures ==
    [][(ret'.op = "circuit_breaker_check" /\ ~circuit_breaker.is_open) =>
           /\ ~ret'.result
           /\ circuit_breaker'.failures =
                  (IF now - circuit_breaker.last_failure > WindowMs
                   THEN 0 ELSE circuit_breaker.failures)
           /\ circuit_breaker'.last_failure = circuit_breaker.last_failure
           /\ ~circuit_breaker'.is_open
           /\ circuit_breaker'.opened_at = circuit_breaker.opened_at]_vars

\* a check of a breaker that never opened finds its failures stale and has
\* dropped them
C11_Witness ==
    /\ ret.op = "circuit_breaker_check"
    /\ ~ret.was_open /\ ~ret.result
    /\ circuit_breaker.opened_at = 0
    /\ circuit_breaker.last_failure > 0
    /\ now - circuit_breaker.last_failure > WindowMs
    /\ circuit_breaker.failures = 0

\* a check exactly one window after the last failure keeps the count
C11_WitnessBoundary ==
    /\ ret.op = "circuit_breaker_check"
    /\ ~ret.was_open
    /\ now - circuit_breaker.last_failure = WindowMs
    /\ circuit_breaker.failures > 0

\* the breaker as the check at the start of a protected call leaves it when
\* it does not short-circuit
AfterCheck ==
    IF circuit_breaker.is_open
    THEN [circuit_breaker EXCEPT !.is_open = FALSE, !.failures = 0]
    ELSE IF now - circuit_breaker.last_failure > WindowMs
    THEN [circuit_breaker EXCEPT !.failures = 0]
    ELSE circuit_breaker

\* C12, the part about the work: a call that is not short-circuited runs the
\* work exactly once; a raising work is recorded as exactly one failure, at
\* the time it raised, and its exception reaches the caller
WorkRunsOnce ==
    /\ ret'.invoked /\ ret'.work_calls = 1
    /\ ret'.raised =>
           /\ ret'.returns = "exception"
           /\ circuit_breaker'.failures = AfterCheck.failures + 1
           /\ circuit_breaker'.last_failure = now'
    /\ ~ret'.raised => ret'.returns = "work_result"

\* C12 as stated: after a successful call failureCount, lastFailureTime,
\* isOpen and openedAt are what they were before the call.
C12_SuccessLeavesBreakerUntouched ==
    [][(ret'.op = "with_circuit_breaker" /\ ~ret'.refused) =>
           /\ WorkRunsOnce
           /\ ~ret'.raised => circuit_breaker' = circuit_breaker]_vars

\* C12 amended: after a successful call the four fields are what the check
\* at the start of the call left them (it drops stale failures and closes a
\* breaker whose cooldown is over); the success changes none of them.
C12_SuccessChangesNothingAfterCheck ==
    [][(ret'.op = "with_circuit_breaker" /\ ~ret'.refused) =>
           /\ WorkRunsOnce
           /\ ~ret'.raised => circuit_breaker' = AfterCheck]_vars

\* a successful protected call that leaves recorded failures in place
C12_Witness ==
    /\ ret.op = "with_circuit_breaker"
    /\ ret.invoked /\ ~ret.raised
    /\ ret.returns = "work_result"
    /\ circuit_breaker.failures > 0
    /\ ~circuit_breaker.is_open

\* a raising protected call that opened the breaker
C12_WitnessRaised ==
    /\ ret.op = "with_circuit_breaker"
    /\ ret.raised /\ ret.returns = "exception"
    /\ circuit_breaker.is_open
    /\ circuit_breaker.opened_at = now

\* --------------------------------------------------------- cache claims
\* the entries of c other than key's, in their order
Others(c, key) == SelectSeq(c, LAMBDA e : e.key # key)

\* the key of CacheHandles member h
KeyOf(h) == generate_key("work", <<h>>)

\* C13: get of an absent key counts a miss and returns absent; get of a
\* present key before its expiry counts a hit, makes the entry most recently
\* used and returns its value; get of a present key at or after its expiry
\* removes the entry, counts a miss and returns absent. No other entry and
\* no other counter changes.
C13_GetHitsMissesAndExpires ==
    [][ret'.op = "cache.get" =>
           LET key == ret'.key
               i == position(cache, key)
           IN  /\ stats'.evictions = stats.evictions
               /\ Others(cache', key) = Others(cache, key)
               /\ IF key \notin Keys(cache)
                  THEN /\ cache' = cache
                       /\ stats'.misses = stats.misses + 1
                       /\ stats'.hits = stats.hits
                       /\ ret'.result = None
                  ELSE IF now < cache[i].expires_at
                  THEN /\ Len(cache') = Len(cache)
                       /\ cache'[Len(cache')] = cache[i]
                       /\ stats'.hits = stats.hits + 1
                       /\ stats'.misses = stats.misses
                       /\ ret'.result = cache[i].value
                  ELSE /\ key \notin Keys(cache')
                       /\ stats'.misses = stats.misses + 1
                       /\ stats'.hits = stats.hits
                       /\ ret'.result = None]_vars

\* a hit moved the older of two entries to the most recently used end
C13_Witness ==
    /\ ret.op = "cache.get" /\ ret.found = "live"
    /\ ret.result \in {"v1", "v2"}
    /\ Len(cache) = 2
    /\ cache[2].key = ret.key
    /\ cache[2].created_at < cache[1].created_at
    /\ stats.hits = 1

\* a get removed an expired entry and left the other one
C13_WitnessExpired ==
    /\ ret.op = "cache.get" /\ ret.found = "expired"
    /\ ret.result = None
    /\ ret.key \notin Keys(cache)
    /\ Len(cache) = 1
    /\ stats.misses = 1

\* C14: set evicts the least recently used entry and adds one to evictions
\* if and only if the store is full and the key is new; overwriting a key
\* that is present removes no other entry and leaves evictions alone.
C14_EvictsIffFullAndKeyNew ==
    [][ret'.op = "cache.set" =>
           IF Len(cache) = MaxSize /\ ret'.key \notin Keys(cache)
           THEN /\ stats'.evictions = stats.evictions + 1
                /\ Keys(cache') = (Keys(cache) \ {cache[1].key}) \cup {ret'.key}
           ELSE /\ stats'.evictions = stats.evictions
                /\ Keys(cache') = Keys(cache) \cup {ret'.key}]_vars

\* C15: the store never holds more than maxSize entries.
C15_SizeWithinMaxSize == Len(cache) <= MaxSize

\* a set of a new key into a full store left it full
C15_Witness ==
    /\ ret.op = "cache.set"
    /\ ret.was_full /\ ~ret.was_present
    /\ Len(cache) = MaxSize
    /\ stats.evictions = 1

\* key is the stored key whose last set or hit is the oldest
LeastRecentlyUsed(key) ==
    /\ key \in Keys(cache)
    /\ \A k \in Keys(cache) : last_write[key].rank <= last_write[k].rank

\* C16: when set evicts, the entry that goes is the one whose last set or
\* hit is the oldest of the stored entries (the key being set is written
\* anew either way).
C16_EvictsLeastRecentlyUsed ==
    [][(ret'.op = "cache.set" /\ stats'.evictions = stats.evictions + 1) =>
           \A k \in Keys(cache) \ {ret'.key} :
               k \notin Keys(cache') <=> LeastRecentlyUsed(k)]_vars

\* maxSize = 2: set(a), set(b), get(a), set(c) has removed b and kept a
C16_Witness ==
    /\ ret.op = "cache.set"
    /\ ret.key = KeyOf("c")
    /\ ret.lost = {KeyOf("b")}
    /\ Len(cache) = 2
    /\ cache[1].key = KeyOf("a") /\ cache[2].key = KeyOf("c")
    /\ stats = [hits |-> 1, misses |-> 0, evictions |-> 1]
    /\ nreq = 4

\* C17: a key whose last set (value, ttl, at time t) was not followed by an
\* eviction, invalidate or clear of it is served by get before t + ttl and
\* is a counted miss from t + ttl on; a set, also one that overwrites, gives
\* the entry the expiry now + ttl and makes it the most recently used.
C17_ServedUntilExpiryThenMissed ==
    [][/\ (ret'.op = "cache.get" /\ ret'.key \in DOMAIN last_write) =>
              LET w == last_write[ret'.key]
              IN  IF now < w.at + w.ttl * MsPerSec
                  THEN /\ ret'.result = w.value
                       /\ stats'.hits = stats.hits + 1
                       /\ stats'.misses = stats.misses
                  ELSE /\ ret'.result = None
                       /\ stats'.misses = stats.misses + 1
                       /\ stats'.hits = stats.hits
       /\ ret'.op = "cache.set" =>
              LET e == cache'[Len(cache')]
              IN  /\ e.key = ret'.key
                  /\ e.value = ret'.value
                  /\ e.expires_at = now + ret'.ttl * MsPerSec
                  /\ \A k \in Keys(cache') :
                         last_write'[k].rank <= last_write'[e.key].rank]_vars

\* a get one second after the set, before the expiry, was served
C17_Witness ==
    /\ ret.op = "cache.get" /\ ret.found = "live"
    /\ ret.key \in DOMAIN last_write
    /\ ret.result = last_write[ret.key].value
    /\ now = last_write[ret.key].at + MsPerSec
    /\ last_write[ret.key].ttl = 2

\* a get at the instant of expiry was a miss
C17_WitnessExpiry ==
    /\ ret.op = "cache.get" /\ ret.found = "expired"
    /\ ret.key \in DOMAIN last_write
    /\ now = last_write[ret.key].at
                 + last_write[ret.key].ttl * MsPerSec

\* an overwrite one second after the first set moved the expiry
C17_WitnessOverwrite ==
    /\ ret.op = "cache.set" /\ ret.was_present /\ ~ret.was_full
    /\ now > T0
    /\ cache[Len(cache)].key = ret.key
    /\ cache[Len(cache)].expires_at = now + ret.ttl * MsPerSec
    /\ Len(cache) = 1

\* C18: hits, misses and evictions never decrease under get, set, invalidate
\* and get_stats; clear empties the store and sets all three to zero.
C18_CountersFallOnlyAtClear ==
    [][/\ ret'.op \in {"cache.get", "cache.set", "cache.invalidate",
                       "cache.get_stats"} =>
              /\ stats'.hits >= stats.hits
              /\ stats'.misses >= stats.misses
              /\ stats'.evictions >= stats.evictions
       /\ ret'.op = "cache.clear" =>
              /\ cache' = <<>>
              /\ stats' = [hits |-> 0, misses |-> 0, evictions |-> 0]]_vars

\* a clear of a store with entries, hits and misses
C18_Witness ==
    /\ ret.op = "cache.clear"
    /\ ret.dropped > 0
    /\ ret.before.hits > 0 /\ ret.before.misses > 0
    /\ cache = <<>>
    /\ stats = [hits |-> 0, misses |-> 0, evictions |-> 0]

\* C19: invalidate removes key's entry when there is one and does nothing
\* otherwise; the counters, the other entries and their recency order stay.
C19_InvalidateRemovesOnlyTheKey ==
    [][ret'.op = "cache.invalidate" =>
           /\ ret'.key \notin Keys(cache')
           /\ cache' = Others(cache, ret'.key)
           /\ stats' = stats
           /\ \A j, k \in Keys(cache') :
                  last_write'[j].rank <= last_write'[k].rank
                      <=> last_write[j].rank <= last_write[k].rank]_vars

\* an invalidate took the most recently used of two entries after a hit
C19_Witness ==
    /\ ret.op = "cache.invalidate" /\ ret.was_present
    /\ Len(cache) = 1
    /\ stats.hits = 1

\* the store after the lookup the cached wrapper starts with: an expired
\* entry of key is removed, an entry of key holding None is moved to the
\* most recently used end
AfterLookup(key) ==
    LET i == position(cache, key)
    IN  IF i = 0 THEN cache
        ELSE IF now < cache[i].expires_at
        THEN Append(Others(cache, key), cache[i])
        ELSE Others(cache, key)

\* C20, what holds whichever store the call finds: the error reaches the
\* caller, and the next call for the same fingerprint runs the work again
RaiseReachesCaller ==
    /\ (ret'.op = "cached" /\ ret'.executed /\ ret'.outcome = "raise") =>
           ret'.raised /\ ret'.result = None
    /\ (ret.op = "cached" /\ ret.raised
            /\ ret'.op = "cached" /\ ret'.key = ret.key) => ret'.executed

\* C20 as stated: when the wrapped work raises, no entry is stored: the
\* entries of the store and their recency order are as before the call.
C20_RaiseLeavesCacheAsBefore ==
    [][/\ RaiseReachesCaller
       /\ (ret'.op = "cached" /\ ret'.raised) => cache' = cache]_vars

\* C20 amended: when the wrapped work raises, the call stores nothing: the
\* store is as the lookup left it (an expired entry of the fingerprint
\* removed, an entry holding None moved to the most recently used end), with
\* no value served from it.
C20_RaiseStoresNothing ==
    [][/\ RaiseReachesCaller
       /\ (ret'.op = "cached" /\ ret'.raised) =>
              /\ cache' = AfterLookup(ret'.key)
              /\ stats'.evictions = stats.evictions
              /\ \A i \in 1..Len(cache') :
                     cache'[i].key = ret'.key => cache'[i].value = None]_vars

\* two raising fetches ran the work twice and left the store empty
C20_Witness ==
    /\ ret.op = "cached" /\ ret.raised /\ ret.executed
    /\ ret.held = "absent"
    /\ cache = <<>>
    /\ stats.misses = 2
    /\ nreq = 2

\* a raising fetch found the expired entry of an earlier fetch
C20_WitnessExpired ==
    /\ ret.op = "cached" /\ ret.raised
    /\ ret.held = "expired"
    /\ ret.key \notin Keys(cache)

\* ------------------------------------------------- claims across gates

\* C21: a request refused by the global or the per-identifier limiter does
\* not reach the cache: entries, recency order and the hit, miss and
\* eviction counters are as before, and neither the lookup nor the wrapped
\* work is run.
C21_RefusedRequestSkipsCache ==
    [][(ret'.op = "request" /\ ret'.denied_by # "nothing") =>
           /\ ret'.status \in {429, 503}
           /\ cache' = cache
           /\ stats' = stats
           /\ last_write' = last_write
           /\ \A i \in 1..Len(trace') :
                  trace'[i] \notin {"cache_lookup", "work"}]_vars

\* a caller out of tokens is refused on the endpoint whose earlier requests
\* filled the cache
C21_Witness ==
    /\ ret.op = "request"
    /\ ret.denied_by = "per_identifier"
    /\ ret.endpoint = "add_user"
    /\ Len(cache) = 1
    /\ stats.hits + stats.misses > 0

\* the same behind an exhausted global bucket
C21_WitnessGlobal ==
    /\ ret.op = "request"
    /\ ret.denied_by = "global"
    /\ ret.endpoint = "add_user"
    /\ Len(cache) = 1

\* get_stats returned the counters and the size as they are and changed
\* nothing
StatsAreCurrent ==
    /\ ret'.result.hits = stats.hits
    /\ ret'.result.misses = stats.misses
    /\ ret'.result.evictions = stats.evictions
    /\ ret'.result.size = Len(cache)
    /\ cache' = cache /\ stats' = stats /\ last_write' = last_write
    /\ stats.hits + stats.misses = 0 => ret'.result.hit_rate = 0

\* C22 as stated: the hit rate returned is 100 * hits / (hits + misses)
\* (hit_rate is held in hundredths of a percent).
C22_HitRateIsTheQuotient ==
    [][ret'.op = "cache.get_stats" =>
           /\ StatsAreCurrent
           /\ ret'.result.hit_rate * (stats.hits + stats.misses)
                  = 100 * 100 * stats.hits]_vars

\* C22 amended: the hit rate returned is 100 * hits / (hits + misses) to
\* the nearest hundredth of a percent.
C22_HitRateToTwoDecimals ==
    [][ret'.op = "cache.get_stats" =>
           LET total == stats.hits + stats.misses
               off == ret'.result.hit_rate * total - 100 * 100 * stats.hits
           IN  /\ StatsAreCurrent
               /\ 2 * off <= total /\ 2 * off >= 0 - total]_vars

\* 3 hits and 1 miss are reported as 75.00
C22_Witness ==
    /\ ret.op = "cache.get_stats"
    /\ ret.result.hits = 3 /\ ret.result.misses = 1
    /\ ret.result.hit_rate = 7500
    /\ ret.result.size = 1

\* 2 hits and 1 miss are reported as 66.67
C22_WitnessRounded ==
    /\ ret.op = "cache.get_stats"
    /\ ret.result.hits = 2 /\ ret.result.misses = 1
    /\ ret.result.hit_rate = 6667

\* two calls pass the same keywords, in whatever order
SameKeywords(kw1, kw2) ==
    {kw1[i] : i \in 1..Len(kw1)} = {kw2[i] : i \in 1..Len(kw2)}

\* C23: the fingerprint depends on the function name, the positional
\* arguments in order and the set of keywords only: a call with the same
\* name, arguments and keywords, the keywords in any order and the cache in
\* any state, gets the fingerprint the last call got.
C23_FingerprintOfNameAndArguments ==
    /\ ret.op = "generate_key" =>
           \A kwargs \in KeywordCalls :
               SameKeywords(kwargs, ret.kwargs) =>
                   fingerprint(ret.func, ret.args, kwargs) = ret.result
    /\ \A i \in 1..Len(cache) :
           \A kwargs \in KeywordCalls :
               SameKeywords(kwargs, cache[i].key.kwargs) =>
                   fingerprint(cache[i].key.func, cache[i].key.args, kwargs)
                       = cache[i].key

\* with a result stored in the cache, a call that wrote page before handle
\* got the key of the call that wrote handle before page
C23_Witness ==
    /\ ret.op = "generate_key"
    /\ ret.kwargs = <<KwPage, KwHandle>>
    /\ ret.result = fingerprint(ret.func, ret.args, <<KwHandle, KwPage>>)
    /\ Len(cache) = 2
    /\ cache[1].key = ret.result

\* C27: while the breaker is open no operation changes openedAt, so a
\* failure recorded while it is open does not push the reopening back.
C27_OpenedAtFixedWhileOpen ==
    [][(circuit_breaker.is_open /\ circuit_breaker'.is_open) =>
           circuit_breaker'.opened_at = circuit_breaker.opened_at]_vars

\* C28: under calls of circuit_breaker_check, record_failure and the
\* wrapper made of them, isOpen holds exactly when failureCount has reached
\* the threshold.
C28_OpenIffThresholdReached ==
    circuit_breaker.is_open
        <=> circuit_breaker.failures >= CIRCUIT_BREAKER_THRESHOLD

\* a check after the cooldown has closed the breaker and cleared the count
C28_Witness ==
    /\ ret.op = "circuit_breaker_check"
    /\ ret.was_open /\ ~ret.result
    /\ ~circuit_breaker.is_open
    /\ circuit_breaker.failures = 0
    /\ now - circuit_breaker.opened_at > CooldownMs

\* the failure that reached the threshold has opened the breaker
C28_WitnessOpen ==
    /\ ret.op = "record_failure"
    /\ circuit_breaker.is_open
    /\ circuit_breaker.failures = CIRCUIT_BREAKER_THRESHOLD
    /\ circuit_breaker.opened_at = now

\* the preset an endpoint is decorated with
PresetOf(endpoint) == RATE_LIMITS[ENDPOINTS[endpoint].preset]

\* the refusal that the last request would get if it were made again
\* retry_after seconds later
DeniedAgainBy ==
    rate_limit(global_bucket, buckets, ret.ip,
               PresetOf(ret.endpoint).capacity,
               PresetOf(ret.endpoint).refill_rate,
               now + ret.retry_after * MsPerSec).denied_by

\* C29: a call refused by the per-identifier limiter, the global limiter,
\* the throttle or the open breaker, made again retry_after after the
\* refusal with no call in between, is not refused by that gate again.
C29_RetryAfterIsEnough ==
    /\ (ret.op = "request" /\ ret.denied_by # "nothing") =>
           DeniedAgainBy # ret.denied_by
    /\ (ret.op = "throttle_request" /\ ~ret.allowed) =>
           throttle_gate(last_request_time, ret.min_delay_ms,
                         now + ret.retry_after).allowed
    /\ (ret.op = "with_circuit_breaker" /\ ret.refused) =>
           ~circuit_breaker_check(circuit_breaker,
                                  now + ret.retry_after * MsPerSec).open

\* C30: a request refused by the per-identifier limiter does not lower the
\* global bucket's token count.
C30_PerIdentifierDenialSparesGlobal ==
    [][(ret'.op = "request" /\ ret'.denied_by = "per_identifier"
            /\ global_bucket.initialized) =>
           global_bucket'.tokens >= global_bucket.tokens]_vars

\* the tokens a request of ip to endpoint would find in its bucket at t,
\* after is_allowed's refill and before its consumption
AvailableUnder(bks, ip, endpoint, t) ==
    is_allowed(bks, ip, PresetOf(endpoint).capacity,
               PresetOf(endpoint).refill_rate, t).refilled

\* C31: a request of an identifier under one preset never lowers the tokens
\* available to that identifier under another preset, so an identifier that
\* has made no request under a preset still has that preset's capacity.
C31_PresetsHaveSeparateBudgets ==
    [][ret'.op = "request" =>
           \A e \in DOMAIN ENDPOINTS \ {ret'.endpoint} :
               AvailableUnder(buckets', ret'.ip, e, now')
                   >= AvailableUnder(buckets, ret'.ip, e, now)]_vars

\* C32: an identical call made while the result an earlier call stored is
\* still held and unexpired returns the stored result, whatever it is
\* (None included), without executing the wrapped work; and the hit counter
\* increases only on calls that did not execute the work.
C32_StoredResultServedWithoutWork ==
    [][ret'.op = "cached" =>
           /\ ret'.held \in {"live", "none"} =>
                  /\ ~ret'.executed
                  /\ ret'.result = cache[position(cache, ret'.key)].value
           /\ stats'.hits > stats.hits => ~ret'.executed]_vars

\* ------------------------------------------------------- thread claims


\* C24: with threads calling is_allowed for one identifier, the calls
\* allowed never exceed the tokens the bucket was created with plus those
\* refilled since, and the bucket is created once.
C24_RefillAndConsumeAtomic ==
    /\ tally.granted * TOKEN
           <= ThreadCapacity * TOKEN + ThreadRefillRate * (now - T0)
    /\ tally.created <= 1

\* C25: with threads calling get, set and invalidate, the store holds at
\* most maxSize entries and no call fails.
C25_CacheSafeUnderThreads ==
    /\ Len(cache) <= MaxSize
    /\ tally.failed = 0

\* C26: with threads calling a throttled function, no two calls less than
\* minDelay apart are both allowed.
C26_ThrottleCheckAndStampAtomic ==
    \A i, j \in 1..Len(tally.admitted) :
        i < j => \/ tally.admitted[j] - tally.admitted[i]
                        >= DEFAULT_MIN_DELAY_MS
                 \/ tally.admitted[i] - tally.admitted[j]
                        >= DEFAULT_MIN_DELAY_MS

\* the recorded uses of a referral code in which u is the new user
UsesBy(u) == select(referral_uses, "new_user", u)

\* C33: whatever the interleaving of use_referral_code calls, each user is
\* the new user of at most one recorded use and of none of their own code;
\* a call for a user who had already used a code, or with the user's own
\* code, returns success = false and writes no referral count and no points.
C33_ReferredOnceAndNotBySelf ==
    /\ \A u \in ReferralUsers : Len(UsesBy(u)) <= 1
    /\ \A i \in 1..Len(referral_uses), j \in 1..Len(referrals) :
           referrals[j].referral_code = referral_uses[i].referral_code =>
               referrals[j].username # referral_uses[i].new_user
    /\ (ret.op = "use_referral_code" /\ (ret.used_before \/ ret.own_code)) =>
           ~ret.success /\ ~ret.wrote

====
